---------------------------- MODULE Spec2Model ----------------------------
(***************************************************************************)
(* A model of the procedural composition core of the repository:          *)
(*   tools/creative_pattern_engine.py  (EuclideanRhythm,                  *)
(*                                      CreativePatternEngine)            *)
(*   tools/musical_key_engine.py       (Scale, KeySignature,              *)
(*                                      MelodicGenerator)                 *)
(*                                                                         *)
(* Python values are modelled as follows.  A list is a sequence (Python   *)
(* index i is TLA+ index i+1).  A call either returns a value or raises:  *)
(* its outcome is the record [raised, value], where value is the returned *)
(* value or the name of the exception.  A draw from the random module is  *)
(* a nondeterministic choice over the values the draw can return.         *)
(***************************************************************************)
EXTENDS Integers, Sequences, FiniteSets

(***************************************************************************)
(* Bounds of the model (not program constants).                           *)
(***************************************************************************)
\* largest pulses / steps argument tried on EuclideanRhythm.generate
MaxSteps == 16
\* largest rotation argument tried (beyond MaxSteps, so that rotations
\* longer than the pattern occur)
MaxRotation == 18
\* pulses, steps and bars arguments are tried down to -NegRange
NegRange == 2
\* largest length argument tried on generate_unique_pattern
MaxLength == 4
\* generate_unique_pattern is called while the cache holds at most MaxCache
\* fingerprints
MaxCache == 2
\* generate_melody is called for at most MaxNotes beats in all
\* (bars * notes_per_bar), and with bars and notes_per_bar up to MaxNotes
MaxNotes == 2
\* largest length argument tried on GeneticRhythm.initialize_population;
\* in longer patterns the random draws vary the first MaxGenes genes only
MaxGenes == 2
\* largest population_size a GeneticRhythm is built with
MaxPopulation == 3
\* evolve is called while generation is below MaxGeneration
MaxGeneration == 2
\* the number of threads that call generate_unique_pattern on one engine
MaxThreads == 2
\* largest length argument tried on the calls of the threads
MaxThreadLength == 1
\* largest length argument tried on generate_drum_kit
MaxKitLength == 1
\* largest number of notes given to the functions of HumanizeEngine
MaxNoteCount == 2
\* largest number of bars asked of generate_melody and generate_bass_line
\* when they are followed note by note
MaxBars == 2
\* a notes_per_bar above 24, for which tick_length is 1
DenseNotes == 25

(***************************************************************************)
(* Python primitives.                                                      *)
(***************************************************************************)
\* the elements of a list
SeqToSet(lst) == {lst[i] : i \in 1..Len(lst)}

Ok(v) == [raised |-> FALSE, value |-> v]

Raise(e) == [raised |-> TRUE, value |-> e]

Min(a, b) == IF a <= b THEN a ELSE b

Max(a, b) == IF a >= b THEN a ELSE b

Abs(a) == IF a < 0 THEN -a ELSE a

\* Python's a // b and a % b for b # 0: the quotient is rounded toward
\* minus infinity and the remainder has the sign of b.
PyFloorDiv(a, b) == IF b > 0 THEN a \div b ELSE (-a) \div (-b)

PyMod(a, b) == a - b * PyFloorDiv(a, b)

\* The place a slice bound k denotes in a list of length n.
PyIndex(k, n) == IF k < 0 THEN Max(n + k, 0) ELSE Min(k, n)

\* lst[k:] and lst[:k]
SliceFrom(lst, k) == SubSeq(lst, PyIndex(k, Len(lst)) + 1, Len(lst))

SliceTo(lst, k) == SubSeq(lst, 1, PyIndex(k, Len(lst)))

\* lst * n  (the empty list when n <= 0)
RECURSIVE RepeatSeq(_, _)
RepeatSeq(lst, n) == IF n <= 0 THEN <<>> ELSE lst \o RepeatSeq(lst, n - 1)

\* sum(lst)
RECURSIVE SumSeq(_)
SumSeq(lst) == IF lst = <<>> THEN 0 ELSE Head(lst) + SumSeq(Tail(lst))

(***************************************************************************)
(* EuclideanRhythm.generate (creative_pattern_engine.py 48-98).           *)
(***************************************************************************)
\* The while loop of lines 71-77, then line 79.  The two lists and the two
\* integers are the loop's variables; a zero divisor raises
\* ZeroDivisionError.
RECURSIVE BjorklundLoop(_, _, _, _)
BjorklundLoop(counts, remainders, divisor, level) ==
    IF remainders[level + 1] = 0
    THEN Raise("ZeroDivisionError")
    ELSE LET counts2     == Append(counts, PyFloorDiv(divisor, remainders[level + 1]))
             remainders2 == Append(remainders, PyMod(divisor, remainders[level + 1]))
             divisor2    == remainders[level + 1]
             level2      == level + 1
         IN  IF remainders2[level2 + 1] <= 1
             THEN Ok([counts     |-> Append(counts2, divisor2),
                      remainders |-> remainders2,
                      level      |-> level2])
             ELSE BjorklundLoop(counts2, remainders2, divisor2, level2)

\* A build that forgets the remainder branch of lines 89-90.
RECURSIVE build_no_remainder(_, _, _)
build_no_remainder(level, counts, remainders) ==
    IF level = -1 THEN <<0>>
    ELSE IF level = -2 THEN <<1>>
    ELSE RepeatSeq(build_no_remainder(level - 1, counts, remainders), counts[level + 1])

\* The nested function build of lines 81-90: what one call appends to
\* pattern.
RECURSIVE build(_, _, _)
build(level, counts, remainders) ==
    IF level = -1 THEN <<0>>
    ELSE IF level = -2 THEN <<1>>
    ELSE RepeatSeq(build(level - 1, counts, remainders), counts[level + 1])
         \o (IF remainders[level + 1] # 0
             THEN build(level - 2, counts, remainders)
             ELSE <<>>)

\* Lines 94-96: the rotation, a pair of slices.
apply_rotation(pattern, rotation) ==
    IF rotation # 0
    THEN SliceFrom(pattern, rotation) \o SliceTo(pattern, rotation)
    ELSE pattern

generate(pulses0, steps, rotation) ==
    LET pulses == IF pulses0 > steps THEN steps ELSE pulses0
    IN  IF pulses = 0
        THEN Ok(RepeatSeq(<<0>>, steps))
        ELSE LET loop == BjorklundLoop(<<>>, <<pulses>>, steps - pulses, 0)
             IN  IF loop.raised
                 THEN loop
                 ELSE LET pattern == build(loop.value.level, loop.value.counts,
                                           loop.value.remainders)
                      IN  Ok(SliceTo(apply_rotation(pattern, rotation), steps))

(***************************************************************************)
(* Scale (musical_key_engine.py 12-98).                                    *)
(***************************************************************************)
\* Scale.SCALES, lines 16-36
SCALES ==
    [major            |-> <<0, 2, 4, 5, 7, 9, 11>>,
     minor            |-> <<0, 2, 3, 5, 7, 8, 10>>,
     harmonic_minor   |-> <<0, 2, 3, 5, 7, 8, 11>>,
     melodic_minor    |-> <<0, 2, 3, 5, 7, 9, 11>>,
     dorian           |-> <<0, 2, 3, 5, 7, 9, 10>>,
     phrygian         |-> <<0, 1, 3, 5, 7, 8, 10>>,
     lydian           |-> <<0, 2, 4, 6, 7, 9, 11>>,
     mixolydian       |-> <<0, 2, 4, 5, 7, 9, 10>>,
     aeolian          |-> <<0, 2, 3, 5, 7, 8, 10>>,
     locrian          |-> <<0, 1, 3, 5, 6, 8, 10>>,
     pentatonic_major |-> <<0, 2, 4, 7, 9>>,
     pentatonic_minor |-> <<0, 3, 5, 7, 10>>,
     blues            |-> <<0, 3, 5, 6, 7, 10>>,
     chromatic        |-> <<0, 1, 2, 3, 4, 5, 6, 7, 8, 9, 10, 11>>,
     whole_tone       |-> <<0, 2, 4, 6, 8, 10>>,
     diminished       |-> <<0, 2, 3, 5, 6, 8, 9, 11>>,
     arabian          |-> <<0, 2, 4, 5, 6, 8, 10>>,
     japanese         |-> <<0, 1, 5, 7, 8>>,
     hungarian_minor  |-> <<0, 2, 3, 6, 7, 8, 11>>]

\* Scale.ROOTS, lines 39-43: the keys in the order the dict holds them, and
\* the MIDI number of each.
ROOT_NAMES ==
    <<"C", "C#", "Db", "D", "D#", "Eb", "E", "F", "F#", "Gb", "G", "G#",
      "Ab", "A", "A#", "Bb", "B">>

ROOT_MIDI == <<48, 49, 49, 50, 51, 51, 52, 53, 54, 54, 55, 56, 56, 57, 58, 58, 59>>

RootNameSet == {ROOT_NAMES[i] : i \in 1..Len(ROOT_NAMES)}

\* Scale.ROOTS[name], name a key of the dict
ROOTS(name) == ROOT_MIDI[CHOOSE i \in 1..Len(ROOT_NAMES) : ROOT_NAMES[i] = name]

\* Scale.ROOTS.get(root, 48)
RootsGet(root) == IF root \in RootNameSet THEN ROOTS(root) ELSE 48

\* Scale.SCALES.get(scale_type, Scale.SCALES['major'])
ScalesGet(scale_type) ==
    IF scale_type \in DOMAIN SCALES THEN SCALES[scale_type] ELSE SCALES["major"]

\* line 57
InMidiRange(note) == 0 <= note /\ note <= 127

\* The inner loop of lines 55-58 for one octave.
OctaveNotes(root_midi, intervals, octave) ==
    SelectSeq([i \in 1..Len(intervals) |-> root_midi + (octave - 3) * 12 + intervals[i]],
              InMidiRange)

\* The outer loop of lines 53-58 over range(lo, hi + 1).
RECURSIVE NotesFrom(_, _, _, _)
NotesFrom(root_midi, intervals, lo, hi) ==
    IF lo > hi THEN <<>>
    ELSE OctaveNotes(root_midi, intervals, lo) \o NotesFrom(root_midi, intervals, lo + 1, hi)

\* A get_scale_notes that takes the default root whatever root is asked for.
get_scale_notes_default_root(root, scale_type, lo, hi) ==
    NotesFrom(48, ScalesGet(scale_type), lo, hi)

\* Scale.get_scale_notes(root, scale_type, (lo, hi))
get_scale_notes(root, scale_type, lo, hi) ==
    NotesFrom(RootsGet(root), ScalesGet(scale_type), lo, hi)

\* min(lst, key=lambda x: abs(x - note)): the first element of the least
\* key; ValueError on an empty list.
MinByDistance(lst, note) ==
    IF lst = <<>> THEN Raise("ValueError")
    ELSE Ok(lst[CHOOSE i \in 1..Len(lst) :
                  \A j \in 1..Len(lst) :
                      \/ Abs(lst[i] - note) < Abs(lst[j] - note)
                      \/ Abs(lst[i] - note) = Abs(lst[j] - note) /\ i <= j])

\* A min that keeps the last of several nearest elements.
MinByDistanceLast(lst, note) ==
    IF lst = <<>> THEN Raise("ValueError")
    ELSE Ok(lst[CHOOSE i \in 1..Len(lst) :
                  \A j \in 1..Len(lst) :
                      \/ Abs(lst[i] - note) < Abs(lst[j] - note)
                      \/ Abs(lst[i] - note) = Abs(lst[j] - note) /\ i >= j])

\* A quantize_to_scale that breaks ties toward the upper note.
quantize_to_scale_upper(note, root, scale_type) ==
    MinByDistanceLast(get_scale_notes(root, scale_type, 0, 10), note)

\* A quantize_to_scale that leaves the note where it is.
quantize_to_scale_nowhere(note, root, scale_type) == Ok(note)

\* Scale.quantize_to_scale(note, root, scale_type), lines 62-70
quantize_to_scale(note, root, scale_type) ==
    MinByDistance(get_scale_notes(root, scale_type, 0, 10), note)

\* chord_intervals.get(chord_type, [0, 4, 7]), lines 80-97
ChordIntervalsGet(chord_type) ==
    CASE chord_type = "major" -> <<0, 4, 7>>
      [] chord_type = "minor" -> <<0, 3, 7>>
      [] chord_type = "dim"   -> <<0, 3, 6>>
      [] chord_type = "aug"   -> <<0, 4, 8>>
      [] chord_type = "maj7"  -> <<0, 4, 7, 11>>
      [] chord_type = "min7"  -> <<0, 3, 7, 10>>
      [] chord_type = "dom7"  -> <<0, 4, 7, 10>>
      [] chord_type = "maj9"  -> <<0, 4, 7, 11, 14>>
      [] chord_type = "min9"  -> <<0, 3, 7, 10, 14>>
      [] chord_type = "sus2"  -> <<0, 2, 7>>
      [] chord_type = "sus4"  -> <<0, 5, 7>>
      [] chord_type = "add9"  -> <<0, 4, 7, 14>>
      [] chord_type = "6"     -> <<0, 4, 7, 9>>
      [] chord_type = "min6"  -> <<0, 3, 7, 9>>
      [] OTHER                -> <<0, 4, 7>>

\* line 98
AtMost127(note) == note <= 127

\* Scale.get_chord_tones(root, chord_type, octave), lines 72-98
get_chord_tones(root, chord_type, octave) ==
    LET root_note == RootsGet(root) + (octave - 3) * 12
        intervals == ChordIntervalsGet(chord_type)
    IN  SelectSeq([i \in 1..Len(intervals) |-> root_note + intervals[i]], AtMost127)

(***************************************************************************)
(* KeySignature (musical_key_engine.py 101-170).                           *)
(***************************************************************************)
\* lines 114-118 and 128-132
MAJOR_PATTERN ==
    <<<<"major", 0>>, <<"minor", 2>>, <<"minor", 4>>, <<"major", 5>>,
      <<"major", 7>>, <<"minor", 9>>, <<"dim", 11>>>>

\* lines 121-125
MINOR_PATTERN ==
    <<<<"minor", 0>>, <<"dim", 2>>, <<"major", 3>>, <<"minor", 5>>,
      <<"minor", 7>>, <<"major", 8>>, <<"major", 10>>>>

\* A chord_pattern whose major pattern ends on a minor triad, not a
\* diminished one.
chord_pattern_vii_minor(scale) ==
    IF scale \in {"minor", "aeolian"} THEN MINOR_PATTERN
    ELSE [MAJOR_PATTERN EXCEPT ![7] = <<"minor", 11>>]

\* lines 112-132
chord_pattern(scale) ==
    IF scale = "major" THEN MAJOR_PATTERN
    ELSE IF scale \in {"minor", "aeolian"} THEN MINOR_PATTERN
    ELSE MAJOR_PATTERN

\* lines 140-147: the first key of ROOTS of the pitch class of chord_root,
\* or none (the inner loop ends without appending).
NamesOf(chord_root) ==
    SelectSeq(ROOT_NAMES, LAMBDA name : ROOTS(name) % 12 = chord_root % 12)

\* The loop with the degree taken before the chord is counted:
\* len(chords) for len(chords) + 1.
RECURSIVE DiatonicLoopZeroBased(_, _, _, _)
DiatonicLoopZeroBased(pattern, root_midi, k, chords) ==
    IF k > Len(pattern) THEN chords
    ELSE LET names == NamesOf(root_midi + pattern[k][2])
         IN  DiatonicLoopZeroBased(pattern, root_midi, k + 1,
                 IF names = <<>> THEN chords
                 ELSE Append(chords, [root   |-> Head(names),
                                      type   |-> pattern[k][1],
                                      degree |-> Len(chords)]))

\* The loop of lines 137-147 from pattern entry k on, chords the list so far.
RECURSIVE DiatonicLoop(_, _, _, _)
DiatonicLoop(pattern, root_midi, k, chords) ==
    IF k > Len(pattern) THEN chords
    ELSE LET names == NamesOf(root_midi + pattern[k][2])
         IN  DiatonicLoop(pattern, root_midi, k + 1,
                 IF names = <<>> THEN chords
                 ELSE Append(chords, [root   |-> Head(names),
                                      type   |-> pattern[k][1],
                                      degree |-> Len(chords) + 1]))

\* KeySignature(root, scale).get_diatonic_chords(); Scale.ROOTS[self.root]
\* raises KeyError for a root that is no key of ROOTS.
get_diatonic_chords(root, scale) ==
    IF root \notin RootNameSet THEN Raise("KeyError")
    ELSE Ok(DiatonicLoop(chord_pattern(scale), ROOTS(root), 1, <<>>))

\* progressions, lines 156-167
PROGRESSIONS ==
    [pop     |-> <<0, 5, 3, 4>>,
     rock    |-> <<0, 3, 4, 3>>,
     blues   |-> <<0, 0, 0, 0, 3, 3, 0, 0, 4, 3, 0, 4>>,
     jazz    |-> <<1, 4, 0, 0>>,
     sad     |-> <<5, 3, 0, 4>>,
     epic    |-> <<0, 6, 3, 4>>,
     minimal |-> <<0, 0, 0, 0>>,
     tension |-> <<0, 1, 4, 0>>,
     spanish |-> <<5, 4, 3, 5>>,
     gospel  |-> <<0, 2, 3, 0>>]

\* progressions.get(progression_type, progressions['pop'])
ProgressionsGet(progression_type) ==
    IF progression_type \in DOMAIN PROGRESSIONS
    THEN PROGRESSIONS[progression_type]
    ELSE PROGRESSIONS["pop"]

\* [diatonic[i] for i in pattern if i < bound], line 170 with
\* bound = len(diatonic)
RECURSIVE PickChords(_, _, _)
PickChords(diatonic, pattern, bound) ==
    IF pattern = <<>> THEN <<>>
    ELSE (IF Head(pattern) < bound THEN <<diatonic[Head(pattern) + 1]>> ELSE <<>>)
         \o PickChords(diatonic, Tail(pattern), bound)

\* A progression whose filter is off by one: i < len(diatonic) - 1.
get_chord_progression_off_by_one(root, scale, progression_type) ==
    LET diatonic == get_diatonic_chords(root, scale)
    IN  IF diatonic.raised THEN diatonic
        ELSE Ok(PickChords(diatonic.value, ProgressionsGet(progression_type),
                           Len(diatonic.value) - 1))

\* KeySignature(root, scale).get_chord_progression(progression_type)
get_chord_progression(root, scale, progression_type) ==
    LET diatonic == get_diatonic_chords(root, scale)
    IN  IF diatonic.raised THEN diatonic
        ELSE Ok(PickChords(diatonic.value, ProgressionsGet(progression_type),
                           Len(diatonic.value)))

(***************************************************************************)
(* The chord symbols of MusicalIntelligence.generate_track                 *)
(* (musical_intelligence.py, lines 447-463, 689-712, 802-856).             *)
(*                                                                         *)
(* A chord symbol is a Python str; the model holds it as the sequence of   *)
(* its characters, so that indexing, slicing and `in` are what they are in *)
(* the code.                                                               *)
(***************************************************************************)
\* the characters of each key of Scale.ROOTS, in the order of ROOT_NAMES
ROOT_CHARS ==
    <<<<"C">>, <<"C", "#">>, <<"D", "b">>, <<"D">>, <<"D", "#">>, <<"E", "b">>,
      <<"E">>, <<"F">>, <<"F", "#">>, <<"G", "b">>, <<"G">>, <<"G", "#">>,
      <<"A", "b">>, <<"A">>, <<"A", "#">>, <<"B", "b">>, <<"B">>>>

\* the characters of the str name, a key of Scale.ROOTS
Chars(name) == ROOT_CHARS[CHOOSE i \in 1..Len(ROOT_NAMES) : ROOT_NAMES[i] = name]

\* the str of the characters chars: a key of Scale.ROOTS, or a str that is
\* none
Str(chars) ==
    IF \E i \in 1..Len(ROOT_CHARS) : ROOT_CHARS[i] = chars
    THEN ROOT_NAMES[CHOOSE i \in 1..Len(ROOT_CHARS) : ROOT_CHARS[i] = chars]
    ELSE "?"

\* sub in s, for two str
Contains(s, sub) ==
    \E k \in 0..(Len(s) - Len(sub)) : SubSeq(s, k + 1, k + Len(sub)) = sub

\* lines 455-462: what the chord type adds to the root
ChordSuffix(chord_type) ==
    CASE chord_type = "minor" -> <<"m">>
      [] chord_type = "dim"   -> <<"d", "i", "m">>
      [] chord_type = "maj7"  -> <<"m", "a", "j", "7">>
      [] chord_type = "min7"  -> <<"m", "7">>
      [] OTHER                -> <<>>

\* lines 454-463: the symbol of a chord of the key signature
chord_name(chord) == Chars(chord.root) \o ChordSuffix(chord.type)

\* lines 692-697, 806-811 and 840-845: the root of a symbol of at least one
\* character
ParsedRoot(chord_str) ==
    IF Len(chord_str) > 1 /\ chord_str[2] \in {"#", "b"}
    THEN SubSeq(chord_str, 1, 2)
    ELSE SubSeq(chord_str, 1, 1)

\* chord_str[2:] or chord_str[1:] of the same lines
TypeStr(chord_str) ==
    SubSeq(chord_str, Len(ParsedRoot(chord_str)) + 1, Len(chord_str))

\* _generate_bass, lines 699-707
bass_chord_type(type_str) ==
    IF Contains(type_str, <<"m", "7">>) THEN "min7"
    ELSE IF Contains(type_str, <<"m", "a", "j", "7">>) THEN "maj7"
    ELSE IF Contains(type_str, <<"m">>) THEN "minor"
    ELSE IF Contains(type_str, <<"d", "i", "m">>) THEN "dim"
    ELSE "major"

\* _generate_melodic, the arpeggiator, lines 813-817
arp_chord_type(type_str) ==
    IF Contains(type_str, <<"m">>) THEN "minor"
    ELSE IF Contains(type_str, <<"d", "i", "m">>) THEN "dim"
    ELSE "major"

\* _generate_melodic, the pads, lines 847-853
pad_chord_type(type_str) ==
    IF Contains(type_str, <<"m", "7">>) THEN "min7"
    ELSE IF Contains(type_str, <<"m", "a", "j", "7">>) THEN "maj7"
    ELSE IF Contains(type_str, <<"m">>) THEN "minor"
    ELSE "major"

\* One chord on its way through generate_track: the chord of the key
\* signature, its symbol in progression (line 463), the chord objects
\* _generate_bass (line 709) and the arpeggiator (line 819) rebuild from the
\* symbol, and the tones the pads get for it (line 856).
TrackChord(chord) ==
    LET chord_str == chord_name(chord)
        root == Str(ParsedRoot(chord_str))
        type_str == TypeStr(chord_str)
    IN  [chord       |-> [root |-> chord.root, type |-> chord.type],
         progression |-> chord_str,
         bass        |-> [root |-> root, type |-> bass_chord_type(type_str)],
         arp         |-> [root |-> root, type |-> arp_chord_type(type_str)],
         pad         |-> get_chord_tones(root, pad_chord_type(type_str), 4)]

\* generate_track from line 444 on, followed for the chords alone: the
\* chords of KeySignature(key, scale).get_chord_progression(prog_type),
\* each as TrackChord gives it.
track_chords(key, scale, prog_type) ==
    LET chord_objects == get_chord_progression(key, scale, prog_type)
    IN  IF chord_objects.raised THEN chord_objects
        ELSE Ok([i \in 1..Len(chord_objects.value) |->
                    TrackChord(chord_objects.value[i])])

(***************************************************************************)
(* CreativePatternEngine (creative_pattern_engine.py 407-623).            *)
(*                                                                         *)
(* A generator that draws from random has a set of possible outcomes: the *)
(* operators below give that set, each outcome Ok(pattern) or Raise(e).   *)
(* Four generators compute on floats drawn from a continuous range (the   *)
(* logistic map, the probability field, the wave interference) or on a    *)
(* random population (the genetic search): of those the model keeps what  *)
(* the engine reads, that the outcome is a list of `length` values 0 or   *)
(* 1, and lets it be any such list.                                        *)
(***************************************************************************)
\* list(PatternAlgorithm), lines 21-32
PatternAlgorithm ==
    <<"euclidean", "fibonacci", "golden_ratio", "chaos", "cellular_automaton",
      "markov_chain", "fractal", "probability_field", "wave_interference",
      "genetic">>

\* every list of n values 0 or 1
BinaryLists(n) == [1..n -> {0, 1}]

\* random.randint(a, b): the values it can return; none when a > b, where
\* it raises ValueError
RandInt(a, b) == a..b

\* _generate_euclidean, lines 472-477
generate_euclidean(length) ==
    IF RandInt(3, PyFloorDiv(length * 3, 4)) = {} \/ RandInt(0, length - 1) = {}
    THEN {Raise("ValueError")}
    ELSE {generate(pulses, length, rotation) :
            pulses \in RandInt(3, PyFloorDiv(length * 3, 4)),
            rotation \in RandInt(0, length - 1)}

\* _generate_chaos, lines 479-483, and ChaosGenerator.logistic_map, lines
\* 108-122: one value 0 or 1 per iteration
generate_chaos(length) == {Ok(pattern) : pattern \in BinaryLists(Max(length, 0))}

\* _generate_probability, lines 485-489.  generate_field draws one of four
\* transforms (lines 171-176); without numpy the field is a list of lists
\* and _sine_transform (field[i, j], line 188) and _exponential_transform
\* (field[:, j], line 199) raise TypeError as soon as the field has a
\* column.  sample_pattern gives one value 0 or 1 per column.
generate_probability(length, numpy) ==
    {Ok(pattern) : pattern \in BinaryLists(Max(length, 0))}
    \cup (IF ~numpy /\ length >= 1 THEN {Raise("TypeError")} ELSE {})

\* _generate_genetic, lines 491-497: the best individual of the population
\* the last evolve() ranked.  initialize_population can draw any list of
\* `length` values 0 or 1 for every individual, crossover and mutate can
\* leave it as it is, so any such list can come back.
generate_genetic(length) == {Ok(pattern) : pattern \in BinaryLists(length)}

\* lines 502-505: fib as the while loop leaves it
RECURSIVE FibList(_, _)
FibList(fib, length) ==
    IF fib[Len(fib)] < length
    THEN FibList(Append(fib, fib[Len(fib)] + fib[Len(fib) - 1]), length)
    ELSE fib

\* _generate_fibonacci, lines 499-515
generate_fibonacci(length) ==
    IF RandInt(0, length - 1) = {}
    THEN {Raise("ValueError")}
    ELSE LET fib     == FibList(<<1, 1>>, length)
             hits    == {fib[k] % length : k \in {j \in 1..Len(fib) : fib[j] < length}}
             pattern == [i \in 1..length |-> IF (i - 1) \in hits THEN 1 ELSE 0]
         IN  {Ok(SliceFrom(pattern, offset) \o SliceTo(pattern, offset)) :
                offset \in RandInt(0, length - 1)}

\* (rule >> pos) & 1
RuleBit(rule, pos) == (rule \div (2 ^ pos)) % 2

\* lines 527-538: one generation of the automaton on the ring
CellularStep(rule, state) ==
    LET length == Len(state)
    IN  [i \in 1..length |->
            RuleBit(rule, state[PyMod(i - 2, length) + 1] * 4
                          + state[i] * 2
                          + state[PyMod(i, length) + 1])]

RECURSIVE CellularRun(_, _, _)
CellularRun(rule, state, generations) ==
    IF generations = 0 THEN state
    ELSE CellularRun(rule, CellularStep(rule, state), generations - 1)

\* _generate_cellular, lines 517-540
generate_cellular(length) ==
    {Ok(CellularRun(rule, state, generations)) :
        rule \in {30, 90, 110, 150},
        state \in BinaryLists(Max(length, 0)),
        generations \in RandInt(3, 8)}

\* _generate_markov, lines 542-560: two drawn values, then one drawn value
\* per step (each of the probabilities 0.2 .. 0.8 allows both), cut to length
generate_markov(length) ==
    {Ok(SliceTo(pattern, length)) : pattern \in BinaryLists(Max(length, 2))}

\* lines 568-573: the three ways a fractal pattern grows
FractalGrow(p) ==
    {p \o <<0>> \o p,
     p \o [i \in 1..Len(p) |-> 1 - p[i]],
     p \o [i \in 1..Len(p) |-> p[Len(p) + 1 - i]]}

\* lines 566-575: the patterns the while loop can end with, cut to length
RECURSIVE FractalLoop(_, _)
FractalLoop(patterns, length) ==
    LET grown == UNION {FractalGrow(p) : p \in {q \in patterns : Len(q) < length}}
    IN  {SliceTo(p, length) : p \in {q \in patterns : Len(q) >= length}}
        \cup (IF grown = {} THEN {} ELSE FractalLoop(grown, length))

\* _generate_fractal, lines 562-575
generate_fractal(length) == {Ok(pattern) : pattern \in FractalLoop({<<1>>}, length)}

\* _generate_wave, lines 577-597: one value 0 or 1 per step
generate_wave(length) == {Ok(pattern) : pattern \in BinaryLists(Max(length, 0))}

\* _generate_golden_ratio, lines 599-609.  The k-th hit falls on
\* int((k * phi * length / 2) % length), phi = 1.618034 to the precision
\* needed for the lengths tried; int(length * 0.4) hits are placed.
generate_golden_ratio(length) ==
    LET hits == {((k * length * 1618034) \div 2000000) % length :
                    k \in 1..((2 * length) \div 5)}
    IN  {Ok([i \in 1..length |-> IF (i - 1) \in hits THEN 1 ELSE 0])}

\* lines 431-450: the generator of each algorithm
GeneratePattern(algorithm, length, numpy) ==
    CASE algorithm = "euclidean"          -> generate_euclidean(length)
      [] algorithm = "chaos"              -> generate_chaos(length)
      [] algorithm = "probability_field"  -> generate_probability(length, numpy)
      [] algorithm = "genetic"            -> generate_genetic(length)
      [] algorithm = "fibonacci"          -> generate_fibonacci(length)
      [] algorithm = "cellular_automaton" -> generate_cellular(length)
      [] algorithm = "markov_chain"       -> generate_markov(length)
      [] algorithm = "fractal"            -> generate_fractal(length)
      [] algorithm = "wave_interference"  -> generate_wave(length)
      [] OTHER                            -> generate_golden_ratio(length)

\* GeneratePattern for every algorithm, every length tried and both values
\* of HAS_NUMPY, evaluated once.
GenerationTable ==
    [algorithm \in {PatternAlgorithm[k] : k \in 1..Len(PatternAlgorithm)} |->
        [length \in 1..MaxLength |->
            [numpy \in BOOLEAN |-> GeneratePattern(algorithm, length, numpy)]]]

\* A _transform_pattern whose rotation keeps the second half only.
TransformPatternHalved(p) ==
    LET n == Len(p)
    IN  {[i \in 1..n |-> p[n + 1 - i]],
         [i \in 1..n |-> 1 - p[i]],
         SliceFrom(p, n \div 2),
         [i \in 1..n |-> IF (i - 1) % 2 = 0 THEN p[i] ELSE 1 - p[i]],
         [i \in 1..n |-> Max(p[i], p[(i % n) + 1])],
         [i \in 1..n |-> Min(p[i], p[(i % n) + 1])]}

\* _transform_pattern, lines 611-623: the six transformations of a pattern
TransformPattern(p) ==
    LET n == Len(p)
    IN  {[i \in 1..n |-> p[n + 1 - i]],
         [i \in 1..n |-> 1 - p[i]],
         SliceFrom(p, n \div 2) \o SliceTo(p, n \div 2),
         [i \in 1..n |-> IF (i - 1) % 2 = 0 THEN p[i] ELSE 1 - p[i]],
         [i \in 1..n |-> Max(p[i], p[(i % n) + 1])],
         [i \in 1..n |-> Min(p[i], p[(i % n) + 1])]}

\* A while loop that gives up after 3 transformations.
RECURSIVE UniquenessLoopThreeAttempts(_, _, _)
UniquenessLoopThreeAttempts(patterns, attempts, cache) ==
    LET again == {p \in patterns : p \in cache /\ attempts < 3}
    IN  {[pattern |-> p, attempts |-> attempts] : p \in patterns \ again}
        \cup (IF again = {} THEN {}
              ELSE UniquenessLoopThreeAttempts(
                       UNION {TransformPattern(p) : p \in again}, attempts + 1, cache))

\* lines 455-460: the (pattern, attempts) pairs the while loop can end
\* with, entered with one of `patterns` after `attempts` transformations.
\* The fingerprint of a pattern (the md5 of its digits) is modelled by the
\* pattern itself.
RECURSIVE UniquenessLoop(_, _, _)
UniquenessLoop(patterns, attempts, cache) ==
    LET again == {p \in patterns : p \in cache /\ attempts < 10}
    IN  {[pattern |-> p, attempts |-> attempts] : p \in patterns \ again}
        \cup (IF again = {} THEN {}
              ELSE UniquenessLoop(UNION {TransformPattern(p) : p \in again},
                                  attempts + 1, cache))

\* A choice of algorithm that pays no regard to the one used last.
AlgorithmChoicesIgnoringLast(force_different, last) ==
    {PatternAlgorithm[k] : k \in 1..Len(PatternAlgorithm)}

\* lines 423-425: the algorithms the call draws from
AlgorithmChoices(force_different, last) ==
    {PatternAlgorithm[k] : k \in 1..Len(PatternAlgorithm)}
    \ (IF force_different /\ last # "None" THEN {last} ELSE {})

(***************************************************************************)
(* MelodicGenerator (musical_key_engine.py, lines 173-276).                *)
(***************************************************************************)
\* KeySignature.__init__, line 106: the scale notes a MelodicGenerator is
\* built with (get_scale_notes with its default octave range (3, 5))
KeyScaleNotes(root, scale) == get_scale_notes(root, scale, 3, 5)

\* lines 190-191
AvailableNotes(root, scale, octave_range) ==
    LET InOctaves(n) == octave_range[1] * 12 <= n /\ n <= octave_range[2] * 12
    IN  SelectSeq(KeyScaleNotes(root, scale), InOctaves)

\* line 194: available_notes[i] for i in [0, 2, 4] if i < len(available_notes)
StrongTones(available) ==
    [k \in 1..Cardinality({i \in {0, 2, 4} : i < Len(available)}) |->
        available[2 * (k - 1) + 1]]

\* list.index: the Python index of the first occurrence
IndexOf(lst, x) ==
    (CHOOSE i \in 1..Len(lst) : lst[i] = x /\ \A j \in 1..(i - 1) : lst[j] # x) - 1

\* available[max(0, min(len(available) - 1, idx))], lines 261-263, 274-276
ClampedNote(available, idx) ==
    available[Max(0, Min(Len(available) - 1, idx)) + 1]

\* _step_motion, lines 253-263: the notes it can return
step_motion(current, available, max_steps) ==
    IF current \notin SeqToSet(available)
    THEN SeqToSet(available)
    ELSE {ClampedNote(available, IndexOf(available, current) + step) :
              step \in RandInt(-max_steps, max_steps)}

\* _leap_motion, lines 265-276: the notes it can return
leap_motion(current, available) ==
    IF current \notin SeqToSet(available)
    THEN SeqToSet(available)
    ELSE {ClampedNote(available, IndexOf(available, current) + leap) :
              leap \in {-5, -4, -3, 3, 4, 5}}

\* lines 205-220: the notes the melody can move to on a beat
NextNotes(current, available, on_beat) ==
    IF on_beat % 4 = 0
    THEN SeqToSet(StrongTones(available)) \cup step_motion(current, available, 2)
    ELSE step_motion(current, available, 1) \cup step_motion(current, available, 2)
         \cup leap_motion(current, available)

\* lines 223-228: the lengths a note can be given
NoteLengths(tick_length) ==
    {tick_length, tick_length * 2, PyFloorDiv(tick_length, 2)}

\* The values of random.randint(a, b) tried for a velocity offset: the two
\* ends of the range and the offset 0.
VelocityDraws(a, b) == {a, 0, b}

\* lines 231-234: the velocities a note can be given
NoteVelocities(on_beat) ==
    IF on_beat % 4 = 0
    THEN {80 + v : v \in VelocityDraws(-5, 10)}
    ELSE {60 + v : v \in VelocityDraws(-10, 10)}

\* lines 246-249: the last note is moved to strong_tones[0] at velocity 90
Resolve(notes, root_note) ==
    [notes EXCEPT ![Len(notes)] = [@ EXCEPT !.pitch = root_note, !.velocity = 90]]

(***************************************************************************)
(* GeneticRhythm (creative_pattern_engine.py, lines 255-404).              *)
(*                                                                         *)
(* An individual (PatternDNA) is modelled by its rhythm_genes.  Its        *)
(* velocity_genes and timing_genes are read by no branch and no result of  *)
(* the class, and its mutation_rate is 0.3 for every individual (the       *)
(* default, and the mean of two defaults in crossover).                    *)
(***************************************************************************)
\* the default length of initialize_population (line 263)
DefaultLength == 16

\* A fitness score is held as the integer FitnessScale * score.
FitnessScale == 60000

\* the integer square root, by bisection on lo..hi
RECURSIVE ISqrtIn(_, _, _)
ISqrtIn(x, lo, hi) ==
    IF lo >= hi THEN lo
    ELSE LET mid == (lo + hi + 1) \div 2
         IN  IF mid * mid <= x THEN ISqrtIn(x, mid, hi) ELSE ISqrtIn(x, lo, mid - 1)

ISqrt(x) == ISqrtIn(x, 0, 46340)

\* line 284: the Python indices of the hits, ascending
Hits(pattern) ==
    LET IsHit(i) == pattern[i + 1] = 1
    IN  SelectSeq([i \in 1..Len(pattern) |-> i - 1], IsHit)

\* lines 285-295: 2 * consistency, where consistency = 1 / (1 + std) and
\* std = sqrt(n * sum(x^2) - sum(x)^2) / n over the n spacings; the square
\* root is taken to three decimals
GrooveScore(pattern) ==
    LET hits == Hits(pattern)
        n == Len(hits) - 1
        spacings == [i \in 1..n |-> hits[i + 1] - hits[i]]
        squares == [i \in 1..n |-> spacings[i] * spacings[i]]
        d == n * SumSeq(squares) - SumSeq(spacings) * SumSeq(spacings)
    IN  IF Len(hits) > 1
        THEN (2 * FitnessScale * n * 1000) \div (n * 1000 + ISqrt(d * 1000000))
        ELSE 0

\* lines 298-301: 1 - abs(density - 0.4)
DensityScore(pattern) ==
    FitnessScale
    - Abs((FitnessScale * SumSeq(pattern)) \div Len(pattern) - (FitnessScale * 2) \div 5)

\* lines 304-305
SyncopationScore(pattern) ==
    (2 * FitnessScale * Cardinality({i \in 1..Len(pattern) :
                                        (i - 1) % 2 = 1 /\ pattern[i] = 1}))
    \div Len(pattern)

\* str.count: the occurrences of sub in lst from index i on, none
\* overlapping another
RECURSIVE CountFrom(_, _, _)
CountFrom(lst, sub, i) ==
    IF i + Len(sub) - 1 > Len(lst) THEN 0
    ELSE IF SubSeq(lst, i, i + Len(sub) - 1) = sub
         THEN 1 + CountFrom(lst, sub, i + Len(sub))
         ELSE CountFrom(lst, sub, i + 1)

\* lines 309-313: the penalty for one size
RepetitionPenalty(pattern, size) ==
    IF size < Len(pattern)
       /\ CountFrom(pattern, SubSeq(pattern, 1, size), 1)
              > PyFloorDiv(Len(pattern), size) - 1
    THEN FitnessScale
    ELSE 0

\* GeneticRhythm.fitness, lines 276-315; ZeroDivisionError (line 298) on a
\* pattern of no genes
fitness(pattern) ==
    IF Len(pattern) = 0 THEN Raise("ZeroDivisionError")
    ELSE Ok(Max(0, GrooveScore(pattern) + DensityScore(pattern)
                   + SyncopationScore(pattern)
                   - RepetitionPenalty(pattern, 2)
                   - RepetitionPenalty(pattern, 4)))

\* The rhythm genes random draws give a new individual of the given
\* length (line 269): every list of 0 and 1, and of the lists longer than
\* MaxGenes those whose later genes are 0.
RandomPatterns(length) ==
    {[i \in 1..length |-> IF i <= Len(head) THEN head[i] ELSE 0] :
        head \in BinaryLists(Min(Max(length, 0), MaxGenes))}

\* every list of n elements of the set S
ListsOf(S, n) == [1..n -> S]

\* initialize_population, lines 263-274: the populations it can leave
initialize_population(population_size, length) ==
    ListsOf(RandomPatterns(length), Max(population_size, 0))

\* line 322: sorted(random.sample(range(1, length), min(crossover_points,
\* length - 1))) with crossover_points = 2; a negative sample size raises
\* ValueError
CrossoverPoints(length) ==
    LET k == Min(2, length - 1)
    IN  IF k < 0 THEN {Raise("ValueError")}
        ELSE IF k = 0 THEN {Ok(<<>>)}
        ELSE IF k = 1 THEN {Ok(<<a>>) : a \in 1..(length - 1)}
        ELSE {Ok(<<c[1], c[2]>>) :
                 c \in {c \in (1..(length - 1)) \X (1..(length - 1)) : c[1] < c[2]}}

\* lines 328-342: the segments between the points, from parent1 and
\* parent2 in turn
RECURSIVE CrossoverFrom(_, _, _, _, _)
CrossoverFrom(parent1, parent2, points, last_point, from_first) ==
    IF points = <<>> THEN <<>>
    ELSE SliceTo(SliceFrom(IF from_first THEN parent1 ELSE parent2, last_point),
                 Head(points) - last_point)
         \o CrossoverFrom(parent1, parent2, Tail(points), Head(points), ~from_first)

\* GeneticRhythm.crossover, lines 317-349: the children it can return
crossover(parent1, parent2) ==
    {IF points.raised THEN points
     ELSE Ok(CrossoverFrom(parent1, parent2,
                           Append(points.value, Len(parent1)), 0, TRUE)) :
        points \in CrossoverPoints(Len(parent1))}

\* lines 360-373 for the genes from Python index i on: a gene is left alone
\* (no mutation, or 'velocity', 'timing', or 'shift' at index 0), flipped,
\* or swapped with the gene before it.  Genes beyond MaxGenes are left
\* alone.
RECURSIVE MutateFrom(_, _)
MutateFrom(genes, i) ==
    IF i >= Len(genes) \/ i >= MaxGenes THEN {genes}
    ELSE LET flipped == [genes EXCEPT ![i + 1] = 1 - genes[i + 1]]
             shifted == IF i > 0
                        THEN [genes EXCEPT ![i + 1] = genes[i], ![i] = genes[i + 1]]
                        ELSE genes
         IN  UNION {MutateFrom(g, i + 1) : g \in {genes, flipped, shifted}}

\* GeneticRhythm.mutate, lines 351-375: the individuals it can return
mutate(genes) == MutateFrom(genes, 0)

\* A ranking in ascending order of fitness, which keeps the least fit.
SortByFitnessAscending(pop) ==
    LET f(i) == fitness(pop[i]).value
        rank(i) == 1 + Cardinality({j \in 1..Len(pop) :
                                       f(j) < f(i) \/ (f(j) = f(i) /\ j < i)})
    IN  [k \in 1..Len(pop) |-> pop[CHOOSE i \in 1..Len(pop) : rank(i) = k]]

\* lines 383-384: the population in descending order of fitness; the sort
\* is stable, so individuals of equal fitness keep their order
SortByFitness(pop) ==
    LET f(i) == fitness(pop[i]).value
        rank(i) == 1 + Cardinality({j \in 1..Len(pop) :
                                       f(j) > f(i) \/ (f(j) = f(i) /\ j < i)})
    IN  [k \in 1..Len(pop) |-> pop[CHOOSE i \in 1..Len(pop) : rank(i) = k]]

\* lines 393-397: the children two parents drawn from survivors can give
Offspring(survivors) ==
    UNION {UNION {IF crossed.raised THEN {crossed}
                  ELSE {Ok(child) : child \in mutate(crossed.value)} :
                      crossed \in crossover(survivors[i], survivors[j])} :
               i \in 1..Len(survivors), j \in 1..Len(survivors)}

\* An outcome of evolve: what it returns or raises, and the fields of the
\* object as it leaves them.
EvolveOutcome(outcome, pop, gen) ==
    [ret |-> outcome, population |-> pop, generation |-> gen]

\* An evolve that returns the last individual of the new generation.
EvolveFromReturningLast(pop, population_size, generation) ==
    IF \E i \in 1..Len(pop) : fitness(pop[i]).raised
    THEN {EvolveOutcome(Raise("ZeroDivisionError"), pop, generation)}
    ELSE LET fitness_scores == SortByFitness(pop)
             survivors == SliceTo(fitness_scores, PyFloorDiv(population_size, 2))
             missing == Max(population_size - Len(survivors), 0)
         IN  IF missing > 0 /\ survivors = <<>>
             THEN {EvolveOutcome(Raise("IndexError"), pop, generation)}
             ELSE {EvolveOutcome(IF survivors \o children = <<>> THEN Raise("IndexError")
                                 ELSE Ok((survivors \o children)[Len(survivors \o children)]),
                                 survivors \o children, generation + 1) :
                      children \in ListsOf({child.value : child \in Offspring(survivors)},
                                           missing)}

\* evolve from line 382 on, for the population pop
EvolveFrom(pop, population_size, generation) ==
    IF \E i \in 1..Len(pop) : fitness(pop[i]).raised
    THEN {EvolveOutcome(Raise("ZeroDivisionError"), pop, generation)}
    ELSE LET fitness_scores == SortByFitness(pop)
             survivors == SliceTo(fitness_scores, PyFloorDiv(population_size, 2))
             missing == Max(population_size - Len(survivors), 0)
         IN  IF missing > 0 /\ survivors = <<>>
             THEN {EvolveOutcome(Raise("IndexError"), pop, generation)}
             ELSE IF missing > 0 /\ \E child \in Offspring(survivors) : child.raised
             THEN {EvolveOutcome(Raise("ValueError"), pop, generation)}
             ELSE {EvolveOutcome(IF fitness_scores = <<>> THEN Raise("IndexError")
                                 ELSE Ok(fitness_scores[1]),
                                 survivors \o children, generation + 1) :
                      children \in ListsOf({child.value : child \in Offspring(survivors)},
                                           missing)}

\* GeneticRhythm.evolve, lines 377-404: an empty population is seeded by
\* initialize_population() first (lines 379-380)
evolve(population, population_size, generation) ==
    IF population = <<>>
    THEN UNION {EvolveFrom(seeded, population_size, generation) :
                   seeded \in initialize_population(population_size, DefaultLength)}
    ELSE EvolveFrom(population, population_size, generation)

(***************************************************************************)
(* HumanizeEngine (musical_key_engine.py, lines 364-421).                  *)
(*                                                                         *)
(* A note is a dict with the keys position, pitch, velocity and length.   *)
(* amount is a float; the model holds it in hundredths, so that 10 stands *)
(* for 0.1.                                                                *)
(***************************************************************************)
\* int(factor * amount), amount in hundredths: int() truncates toward zero
PyInt(factor, amount) ==
    IF factor * amount >= 0 THEN (factor * amount) \div 100
    ELSE -((-(factor * amount)) \div 100)

\* All lists of choices[1], ..., choices[n], one element of each
Draws(choices) ==
    {draw \in [DOMAIN choices -> UNION {choices[i] : i \in DOMAIN choices}] :
        \A i \in DOMAIN choices : draw[i] \in choices[i]}

\* humanize_timing, lines 376-380: the shifts random.randint can return for
\* a note at position
TimingShifts(position, max_shift) ==
    IF PyMod(position, 48) = 0
    THEN RandInt(PyFloorDiv(-max_shift, 4), PyFloorDiv(max_shift, 4))
    ELSE RandInt(-max_shift, max_shift)

\* HumanizeEngine.humanize_timing(notes, amount), lines 368-386: the
\* outcomes of the call.  random.randint raises ValueError on an empty
\* range, at the first note.
humanize_timing(notes, amount) ==
    LET max_shift == PyInt(48, amount)
        shifts == [i \in 1..Len(notes) |->
                      TimingShifts(notes[i].position, max_shift)]
    IN  IF \E i \in 1..Len(notes) : shifts[i] = {}
        THEN {Raise("ValueError")}
        ELSE {Ok([i \in 1..Len(notes) |->
                    [notes[i] EXCEPT !.position = Max(0, @ + shift[i])]]) :
                 shift \in Draws(shifts)}

\* A humanize_velocity that does not clamp the new velocity.
humanize_velocity_unclamped(notes, amount) ==
    LET variation == PyInt(127, amount)
        variations == [i \in 1..Len(notes) |-> RandInt(-variation, variation)]
    IN  IF \E i \in 1..Len(notes) : variations[i] = {}
        THEN {Raise("ValueError")}
        ELSE {Ok([i \in 1..Len(notes) |->
                    [notes[i] EXCEPT !.velocity = @ + draw[i]]]) :
                 draw \in Draws(variations)}

\* HumanizeEngine.humanize_velocity(notes, amount), lines 388-402: the
\* outcomes of the call
humanize_velocity(notes, amount) ==
    LET variation == PyInt(127, amount)
        variations == [i \in 1..Len(notes) |-> RandInt(-variation, variation)]
    IN  IF \E i \in 1..Len(notes) : variations[i] = {}
        THEN {Raise("ValueError")}
        ELSE {Ok([i \in 1..Len(notes) |->
                    [notes[i] EXCEPT
                       !.velocity = Max(1, Min(127, @ + draw[i]))]]) :
                 draw \in Draws(variations)}

\* HumanizeEngine.add_swing(notes, amount), lines 404-421
add_swing(notes, amount) ==
    LET swing_ticks == PyInt(3, amount)
    IN  Ok([i \in 1..Len(notes) |->
              LET sixteenth_position ==
                      PyMod(PyFloorDiv(notes[i].position, 3), 2)
              IN  IF sixteenth_position = 1
                  THEN [notes[i] EXCEPT !.position = @ + swing_ticks]
                  ELSE notes[i]])

(***************************************************************************)
(* GrooveTemplate (musical_intelligence.py, lines 21-174).  swing is a     *)
(* float; the model holds it in hundredths.                                *)
(***************************************************************************)
\* KICK_GROOVES, lines 25-62
KICK_GROOVES ==
    [house_4x4 |->
        [pattern |-> <<1, 0, 0, 0, 1, 0, 0, 0, 1, 0, 0, 0, 1, 0, 0, 0>>,
         velocities |-> <<127, 0, 0, 0, 110, 0, 0, 0, 120, 0, 0, 0, 110, 0, 0, 0>>,
         swing |-> 0],
     house_garage |->
        [pattern |-> <<1, 0, 0, 0, 0, 0, 0, 1, 1, 0, 0, 0, 0, 0, 0, 0>>,
         velocities |-> <<120, 0, 0, 0, 0, 0, 0, 90, 115, 0, 0, 0, 0, 0, 0, 0>>,
         swing |-> 15],
     techno_driving |->
        [pattern |-> <<1, 0, 0, 1, 1, 0, 0, 0, 1, 0, 0, 1, 1, 0, 0, 0>>,
         velocities |-> <<127, 0, 0, 70, 120, 0, 0, 0, 125, 0, 0, 70, 120, 0, 0, 0>>,
         swing |-> 0],
     techno_minimal |->
        [pattern |-> <<1, 0, 0, 0, 0, 0, 0, 0, 1, 0, 0, 0, 0, 0, 1, 0>>,
         velocities |-> <<120, 0, 0, 0, 0, 0, 0, 0, 115, 0, 0, 0, 0, 0, 80, 0>>,
         swing |-> 0],
     dnb_classic |->
        [pattern |-> <<1, 0, 0, 0, 0, 0, 0, 0, 0, 0, 1, 0, 0, 0, 0, 0>>,
         velocities |-> <<120, 0, 0, 0, 0, 0, 0, 0, 0, 0, 110, 0, 0, 0, 0, 0>>,
         swing |-> 0],
     trap_minimal |->
        [pattern |-> <<1, 0, 0, 0, 0, 0, 0, 0, 0, 0, 0, 0, 1, 0, 0, 0>>,
         velocities |-> <<127, 0, 0, 0, 0, 0, 0, 0, 0, 0, 0, 0, 100, 0, 0, 0>>,
         swing |-> 0],
     hip_hop_boom_bap |->
        [pattern |-> <<1, 0, 0, 0, 0, 0, 1, 0, 0, 0, 1, 0, 0, 0, 0, 0>>,
         velocities |-> <<120, 0, 0, 0, 0, 0, 60, 0, 0, 0, 100, 0, 0, 0, 0, 0>>,
         swing |-> 25]]

\* SNARE_GROOVES, lines 64-91
SNARE_GROOVES ==
    [backbeat |->
        [pattern |-> <<0, 0, 0, 0, 1, 0, 0, 0, 0, 0, 0, 0, 1, 0, 0, 0>>,
         velocities |-> <<0, 0, 0, 0, 100, 0, 0, 0, 0, 0, 0, 0, 100, 0, 0, 0>>,
         swing |-> 0],
     garage_snare |->
        [pattern |-> <<0, 0, 0, 0, 1, 0, 0, 0, 0, 0, 0, 0, 1, 0, 0, 1>>,
         velocities |-> <<0, 0, 0, 0, 100, 0, 0, 0, 0, 0, 0, 0, 100, 0, 0, 60>>,
         swing |-> 10],
     dnb_snare |->
        [pattern |-> <<0, 0, 0, 0, 0, 0, 0, 0, 1, 0, 0, 0, 0, 0, 0, 0>>,
         velocities |-> <<0, 0, 0, 0, 0, 0, 0, 0, 120, 0, 0, 0, 0, 0, 0, 0>>,
         swing |-> 0],
     trap_snare |->
        [pattern |-> <<0, 0, 0, 0, 0, 0, 0, 0, 0, 0, 0, 0, 1, 0, 0, 0>>,
         velocities |-> <<0, 0, 0, 0, 0, 0, 0, 0, 0, 0, 0, 0, 110, 0, 0, 0>>,
         swing |-> 0],
     techno_clap |->
        [pattern |-> <<0, 0, 0, 0, 1, 0, 0, 1, 0, 0, 0, 0, 1, 0, 0, 0>>,
         velocities |-> <<0, 0, 0, 0, 90, 0, 0, 50, 0, 0, 0, 0, 90, 0, 0, 0>>,
         swing |-> 0]]

\* HAT_GROOVES, lines 93-124
HAT_GROOVES ==
    [straight_16ths |->
        [pattern |-> <<1, 1, 1, 1, 1, 1, 1, 1, 1, 1, 1, 1, 1, 1, 1, 1>>,
         velocities |-> <<70, 50, 60, 50, 70, 50, 60, 50, 70, 50, 60, 50, 70, 50, 60, 50>>,
         swing |-> 0],
     house_hats |->
        [pattern |-> <<0, 1, 0, 1, 0, 1, 0, 1, 0, 1, 0, 1, 0, 1, 0, 1>>,
         velocities |-> <<0, 70, 0, 60, 0, 70, 0, 60, 0, 70, 0, 60, 0, 70, 0, 60>>,
         swing |-> 0],
     garage_skip |->
        [pattern |-> <<1, 0, 1, 1, 0, 1, 1, 0, 1, 0, 1, 1, 0, 1, 1, 0>>,
         velocities |-> <<70, 0, 50, 60, 0, 65, 55, 0, 70, 0, 50, 60, 0, 65, 55, 0>>,
         swing |-> 20],
     trap_hats |->
        [pattern |-> <<1, 0, 1, 0, 1, 1, 0, 1, 1, 0, 1, 0, 1, 1, 1, 1>>,
         velocities |-> <<80, 0, 60, 0, 70, 70, 0, 60, 80, 0, 60, 0, 70, 60, 50, 40>>,
         swing |-> 0],
     techno_minimal |->
        [pattern |-> <<0, 0, 1, 0, 0, 0, 1, 0, 0, 0, 1, 0, 0, 0, 1, 0>>,
         velocities |-> <<0, 0, 60, 0, 0, 0, 60, 0, 0, 0, 60, 0, 0, 0, 60, 0>>,
         swing |-> 0],
     dnb_ride |->
        [pattern |-> <<1, 1, 1, 1, 1, 1, 1, 1, 1, 1, 1, 1, 1, 1, 1, 1>>,
         velocities |-> <<60, 55, 58, 55, 60, 55, 58, 55, 60, 55, 58, 55, 60, 55, 58, 55>>,
         swing |-> 0]]

\* genre_map, lines 130-156
genre_map ==
    [house |-> [kick |-> "house_4x4", snare |-> "backbeat", hat |-> "house_hats"],
     techno |-> [kick |-> "techno_driving", snare |-> "techno_clap",
                 hat |-> "techno_minimal"],
     dnb |-> [kick |-> "dnb_classic", snare |-> "dnb_snare", hat |-> "dnb_ride"],
     trap |-> [kick |-> "trap_minimal", snare |-> "trap_snare", hat |-> "trap_hats"],
     garage |-> [kick |-> "house_garage", snare |-> "garage_snare",
                 hat |-> "garage_skip"]]

\* grooves.get(groove_name, default)
GrooveGet(grooves, groove_name, default) ==
    IF groove_name \in DOMAIN grooves THEN grooves[groove_name] ELSE default

\* The default grooves, lines 168-174
DefaultGroove(element) ==
    CASE element = "kick"  -> KICK_GROOVES["house_4x4"]
      [] element = "snare" -> SNARE_GROOVES["backbeat"]
      [] OTHER             -> HAT_GROOVES["straight_16ths"]

\* Default grooves that are those of 'house' for every element.
get_groove_house_defaults(genre, element) ==
    IF genre \in DOMAIN genre_map /\ element \in DOMAIN genre_map[genre]
    THEN Ok(GrooveGet(
              CASE element = "kick" -> KICK_GROOVES
                [] element = "snare" -> SNARE_GROOVES
                [] OTHER -> HAT_GROOVES,
              genre_map[genre][element], DefaultGroove(element)))
    ELSE Ok(CASE element = "kick"  -> KICK_GROOVES["house_4x4"]
              [] element = "snare" -> SNARE_GROOVES["backbeat"]
              [] OTHER             -> HAT_GROOVES["house_hats"])

\* GrooveTemplate.get_groove(genre, element), lines 126-174.  The elements
\* of genre_map are kick, snare and hat, so one of the three branches at
\* lines 161-166 returns.
get_groove(genre, element) ==
    IF genre \in DOMAIN genre_map /\ element \in DOMAIN genre_map[genre]
    THEN LET groove_name == genre_map[genre][element]
         IN  CASE element = "kick" ->
                    Ok(GrooveGet(KICK_GROOVES, groove_name,
                                 KICK_GROOVES["house_4x4"]))
               [] element = "snare" ->
                    Ok(GrooveGet(SNARE_GROOVES, groove_name,
                                 SNARE_GROOVES["backbeat"]))
               [] OTHER ->
                    Ok(GrooveGet(HAT_GROOVES, groove_name,
                                 HAT_GROOVES["straight_16ths"]))
    ELSE Ok(DefaultGroove(element))

(***************************************************************************)
(* MelodicGenerator.generate_bass_line (musical_key_engine.py, 278-319).   *)
(***************************************************************************)
\* patterns, lines 291-303: the lists of (pos, pitch, length) of a bar
BassPatterns(chord_root) ==
    {<<<<0, chord_root, 12>>, <<12, chord_root + 5, 12>>,
       <<24, chord_root + 7, 12>>, <<36, chord_root + 5, 12>>>>,
     <<<<0, chord_root, 24>>, <<24, chord_root + 7, 24>>>>,
     [i \in 1..8 |-> <<(i - 1) * 6, chord_root, 6>>],
     <<<<0, chord_root, 18>>, <<18, chord_root, 6>>, <<30, chord_root + 7, 18>>>>}

(***************************************************************************)
(* State.                                                                  *)
(*                                                                         *)
(* op names the function called last, args holds its arguments, pc tells  *)
(* whether the call has been made ("call" before, "done" after) and ret   *)
(* is its outcome.  The functions of Scale, KeySignature and              *)
(* EuclideanRhythm keep no state between calls: a behaviour of Spec is    *)
(* one call of one of them.                                                *)
(*                                                                         *)
(* A CreativePatternEngine keeps pattern_cache and last_algorithm between *)
(* calls: a behaviour of SpecEngine is a sequence of calls on one engine. *)
(* has_numpy is the module's HAS_NUMPY (lines 10-14), set at import.      *)
(***************************************************************************)
VARIABLES op, args, pc, ret, pattern_cache, last_algorithm, has_numpy,
          melody, position, current_note, bar, beat,
          population_size, population, generation, frames,
          bass, bass_pattern

vars == <<op, args, pc, ret, pattern_cache, last_algorithm, has_numpy,
          melody, position, current_note, bar, beat,
          population_size, population, generation, frames,
          bass, bass_pattern>>

\* The locals of a call of generate_bass_line: bass_pattern holds what the
\* loop at line 308 has still to read of the pattern drawn for the bar, and
\* bass the end of the list bass, the note appended last (the notes before
\* it are never written again).
bass_vars == <<bass, bass_pattern>>

BassIdle ==
    /\ bass = <<>>
    /\ bass_pattern = <<>>

\* frames[t] holds the local variables of the call of generate_unique_pattern
\* that thread t is in, or has left: where the call stands (pc), pattern,
\* attempts and the outcome of the call (ret).  The local variable
\* algorithm is read by the return statement only and is left out, and of
\* the returned dict ret keeps 'pattern', with attempts beside it.
IdleFrame ==
    [pc |-> "idle", pattern |-> <<>>, attempts |-> 0, ret |-> Ok(<<>>)]

\* no thread is modelled
NoThreads == frames = <<>>

\* the fields of a GeneticRhythm
genetic_vars == <<population_size, population, generation>>

\* GeneticRhythm.__init__, lines 258-261, with the default population_size
GeneticInit ==
    /\ population_size = 20
    /\ population = <<>>
    /\ generation = 0

engine_vars == <<pattern_cache, last_algorithm, has_numpy>>

\* the local variables of a running generate_melody
melody_vars == <<melody, position, current_note, bar, beat>>

\* generate_melody is not running: its locals hold the values of lines
\* 184-185, and no note and no loop index is bound yet.
MelodyIdle ==
    /\ melody = <<>>
    /\ position = 0
    /\ current_note = -1
    /\ bar = 0
    /\ beat = 0

\* CreativePatternEngine.__init__, lines 410-416
EngineInit ==
    /\ pattern_cache = {}
    /\ last_algorithm = "None"

GenerateArgs ==
    [pulses : (-NegRange)..MaxSteps, steps : (-NegRange)..MaxSteps,
     rotation : 0..MaxRotation]

\* Every key of ROOTS, and a name that is none.
RootInputs == RootNameSet \cup {"H"}

\* Every key of SCALES, and a name that is none.
ScaleInputs == DOMAIN SCALES \cup {"unknown"}

\* Every key of progressions, and a name that is none.
StyleInputs == DOMAIN PROGRESSIONS \cup {"unknown"}

QuantizeArgs == [note : 0..127, root : RootInputs, scale_type : ScaleInputs]

KeyArgs == [root : RootInputs, scale : ScaleInputs]

ProgressionArgs == [root : RootInputs, scale : ScaleInputs, style : StyleInputs]

\* The keys and octave ranges generate_melody is tried with: the default
\* range (4, 6), the range (5, 6) of MusicalIntelligence._generate_melodic
\* (musical_intelligence.py, line 789), and a range above the scale notes.
MelodyKeys ==
    {<<"C", "minor", <<4, 6>>>>, <<"A", "minor", <<5, 6>>>>,
     <<"C", "major", <<8, 9>>>>}

MelodyArgs ==
    LET Sizes == {s \in ((-NegRange)..MaxNotes) \X (0..MaxNotes) :
                      s[1] * s[2] <= MaxNotes}
    IN  {[root |-> k[1], scale |-> k[2], octave_range |-> k[3],
          bars |-> s[1], notes_per_bar |-> s[2]] :
            k \in MelodyKeys, s \in Sizes}

\* Every genre of genre_map, and names that are none ('jazz' is a genre the
\* controller tests for at musical_intelligence.py line 719).
GenreInputs == DOMAIN genre_map \cup {"jazz", "House", ""}

\* The elements _generate_drums asks for (lines 602-604), and one more.
ElementInputs == {"kick", "snare", "hat", "perc"}

GrooveArgs == [genre : GenreInputs, element : ElementInputs]

\* The keys generate_track is tried with: those _get_key_for_genre draws
\* from (musical_intelligence.py, lines 520-545), and a name that is no key
\* of Scale.ROOTS, which a caller can pass as key.
TrackKeys == {"A", "D", "F#", "C#", "C", "G", "F", "E", "B", "Bb", "Eb", "H"}

\* _get_progression_type, lines 588-596: the types the genre decides
GenreProgressions == {"pop", "minimal", "jazz"}

\* The scale and the progression type _get_scale_for_mood (lines 547-573)
\* and _get_progression_type (lines 575-596) can give to one call: by the
\* moods dark, happy, uplifting, sad, emotional and exotic, and with no
\* such mood by the genres techno, house, trap and the others.
TrackScaleProgressions ==
    ({"minor", "harmonic_minor", "phrygian"} \X {"minimal"})
    \cup ({"major"} \X GenreProgressions)
    \cup ({"major", "lydian"} \X {"epic"})
    \cup ({"minor", "dorian"} \X {"sad"})
    \cup ({"arabian", "japanese", "hungarian_minor"} \X GenreProgressions)
    \cup ({"minor", "dorian", "phrygian"} \X {"minimal"})
    \cup ({"major", "minor"} \X {"pop"})
    \cup ({"minor", "harmonic_minor"} \X {"pop"})
    \cup ({"minor"} \X {"pop", "jazz"})

TrackArgs ==
    {[key |-> k, scale |-> sp[1], prog_type |-> sp[2]] :
        k \in TrackKeys, sp \in TrackScaleProgressions}

Init ==
    /\ pc = "call"
    /\ ret = Ok(<<>>)
    /\ \/ op = "generate" /\ args \in GenerateArgs
       \/ op = "quantize_to_scale" /\ args \in QuantizeArgs
       \/ op = "get_diatonic_chords" /\ args \in KeyArgs
       \/ op = "get_chord_progression" /\ args \in ProgressionArgs
       \/ op = "generate_melody" /\ args \in MelodyArgs
       \/ op = "get_groove" /\ args \in GrooveArgs
       \/ op = "generate_track" /\ args \in TrackArgs
    /\ EngineInit
    /\ has_numpy = FALSE
    /\ MelodyIdle
    /\ GeneticInit
    /\ BassIdle
    /\ NoThreads

\* EuclideanRhythm.generate(pulses, steps, rotation)
CallGenerate ==
    /\ pc = "call" /\ op = "generate"
    /\ ret' = generate(args.pulses, args.steps, args.rotation)
    /\ pc' = "done"
    /\ UNCHANGED <<op, args, engine_vars, genetic_vars, frames, melody_vars, bass_vars>>

\* Scale.quantize_to_scale(note, root, scale_type)
CallQuantize ==
    /\ pc = "call" /\ op = "quantize_to_scale"
    /\ ret' = quantize_to_scale(args.note, args.root, args.scale_type)
    /\ pc' = "done"
    /\ UNCHANGED <<op, args, engine_vars, genetic_vars, frames, melody_vars, bass_vars>>

\* KeySignature(root, scale).get_diatonic_chords()
CallDiatonic ==
    /\ pc = "call" /\ op = "get_diatonic_chords"
    /\ ret' = get_diatonic_chords(args.root, args.scale)
    /\ pc' = "done"
    /\ UNCHANGED <<op, args, engine_vars, genetic_vars, frames, melody_vars, bass_vars>>

\* KeySignature(root, scale).get_chord_progression(style)
CallProgression ==
    /\ pc = "call" /\ op = "get_chord_progression"
    /\ ret' = get_chord_progression(args.root, args.scale, args.style)
    /\ pc' = "done"
    /\ UNCHANGED <<op, args, engine_vars, genetic_vars, frames, melody_vars, bass_vars>>

\* GrooveTemplate.get_groove(genre, element)
CallGroove ==
    /\ pc = "call" /\ op = "get_groove"
    /\ ret' = get_groove(args.genre, args.element)
    /\ pc' = "done"
    /\ UNCHANGED <<op, args, engine_vars, genetic_vars, frames, melody_vars, bass_vars>>

\* MusicalIntelligence.generate_track, the chords of lines 444-463 and
\* their parsing in _generate_bass and _generate_melodic
CallTrackChords ==
    /\ pc = "call" /\ op = "generate_track"
    /\ ret' = track_chords(args.key, args.scale, args.prog_type)
    /\ pc' = "done"
    /\ UNCHANGED <<op, args, engine_vars, genetic_vars, frames, melody_vars, bass_vars>>

\* generate_melody, lines 184-195: the locals are set up and the first
\* note is drawn.  48 // 0 raises ZeroDivisionError (line 187) and
\* random.choice of an empty strong_tones raises IndexError (line 195).
MelodyEnter ==
    /\ pc = "call" /\ op = "generate_melody"
    /\ LET strong_tones ==
               StrongTones(AvailableNotes(args.root, args.scale, args.octave_range))
       IN  IF args.notes_per_bar = 0
           THEN /\ ret' = Raise("ZeroDivisionError")
                /\ pc' = "done"
                /\ UNCHANGED current_note
           ELSE IF strong_tones = <<>>
           THEN /\ ret' = Raise("IndexError")
                /\ pc' = "done"
                /\ UNCHANGED current_note
           ELSE /\ current_note' \in SeqToSet(strong_tones)
                /\ pc' = "for bar"
                /\ UNCHANGED ret
    /\ UNCHANGED <<op, args, engine_vars, genetic_vars, frames, melody, position, bar, beat, bass_vars>>

\* line 197: range(bars) has another bar
MelodyNextBar ==
    /\ pc = "for bar" /\ bar < args.bars
    /\ beat' = 0
    /\ pc' = "for beat"
    /\ UNCHANGED <<op, args, ret, engine_vars, genetic_vars, frames, melody, position, current_note, bar, bass_vars>>

\* lines 200-202: the beat is a rest
MelodyRest ==
    /\ pc = "for beat" /\ beat < args.notes_per_bar
    /\ position' = position + PyFloorDiv(48, args.notes_per_bar)
    /\ beat' = beat + 1
    /\ UNCHANGED <<op, args, pc, ret, engine_vars, genetic_vars, frames, melody, current_note, bar, bass_vars>>

\* lines 204-243: the beat is a note
MelodyNote ==
    /\ pc = "for beat" /\ beat < args.notes_per_bar
    /\ LET tick_length == PyFloorDiv(48, args.notes_per_bar)
           available_notes == AvailableNotes(args.root, args.scale, args.octave_range)
       IN  \E note \in NextNotes(current_note, available_notes, beat),
              length \in NoteLengths(tick_length),
              velocity \in NoteVelocities(beat) :
             /\ current_note' = note
             /\ melody' = Append(melody,
                    [position |-> position,
                     pitch |-> note,
                     length |-> Min(length, 48 - PyMod(position, 48)),
                     velocity |-> velocity])
             /\ position' = position + tick_length
    /\ beat' = beat + 1
    /\ UNCHANGED <<op, args, pc, ret, engine_vars, genetic_vars, frames, bar, bass_vars>>

\* lines 245-249: the beats of the bar are over; the last bar resolves
MelodyEndBar ==
    /\ pc = "for beat" /\ beat >= args.notes_per_bar
    /\ melody' = IF melody # <<>> /\ bar = args.bars - 1
                 THEN Resolve(melody,
                          StrongTones(AvailableNotes(args.root, args.scale,
                                                     args.octave_range))[1])
                 ELSE melody
    /\ bar' = bar + 1
    /\ pc' = "for bar"
    /\ UNCHANGED <<op, args, ret, engine_vars, genetic_vars, frames, position, current_note, beat, bass_vars>>

\* line 251: range(bars) is exhausted
MelodyReturn ==
    /\ pc = "for bar" /\ bar >= args.bars
    /\ ret' = Ok(melody)
    /\ pc' = "done"
    /\ UNCHANGED <<op, args, engine_vars, genetic_vars, frames, melody_vars, bass_vars>>

Next ==
    \/ CallGenerate
    \/ CallGroove
    \/ CallTrackChords
    \/ CallQuantize
    \/ CallDiatonic
    \/ CallProgression
    \/ MelodyEnter
    \/ MelodyNextBar
    \/ MelodyRest
    \/ MelodyNote
    \/ MelodyEndBar
    \/ MelodyReturn

Spec == Init /\ [][Next]_vars

(***************************************************************************)
(* SpecEngine: calls of generate_unique_pattern on one engine.             *)
(***************************************************************************)
InitEngine ==
    /\ op = "none"
    /\ args = <<>>
    /\ pc = "done"
    /\ ret = Ok(<<>>)
    /\ EngineInit
    /\ has_numpy \in BOOLEAN
    /\ MelodyIdle
    /\ GeneticInit
    /\ BassIdle
    /\ NoThreads

\* What the call returns for the pattern and the number of transformations
\* the uniqueness loop ended with (lines 464-470).  Of the dict the model
\* keeps 'pattern' and 'algorithm'; 'hash', 'density' and 'syncopation' are
\* computed from the pattern, and sum(pattern) / len(pattern) raises
\* ZeroDivisionError on an empty pattern.  attempts is the local variable
\* of that name as the loop leaves it.
UniqueResult(pattern, algorithm, attempts) ==
    IF Len(pattern) = 0
    THEN Raise("ZeroDivisionError")
    ELSE Ok([pattern |-> pattern, algorithm |-> algorithm, attempts |-> attempts])

\* CreativePatternEngine.generate_unique_pattern(length, force_different),
\* lines 418-470.  An exception of the generator leaves the call after
\* last_algorithm is set (line 428) and before the cache is touched.
\* The calls on one engine all ask for the same length, as those of
\* generate_drum_kit (lines 678, 690) do.
GenerateUniquePattern ==
    \E length \in {n \in 1..MaxLength : op = "none" \/ n = args.length},
       force_different \in BOOLEAN :
      \E algorithm \in AlgorithmChoices(force_different, last_algorithm) :
        \E generated \in GenerationTable[algorithm][length][has_numpy] :
          /\ op' = "generate_unique_pattern"
          /\ args' = [length |-> length, force_different |-> force_different]
          /\ pc' = "done"
          /\ last_algorithm' = algorithm
          /\ UNCHANGED <<has_numpy, melody_vars, genetic_vars, frames, bass_vars>>
          /\ IF generated.raised
             THEN /\ ret' = generated
                  /\ UNCHANGED pattern_cache
             ELSE \E out \in UniquenessLoop({generated.value}, 0, pattern_cache) :
                    /\ pattern_cache' = pattern_cache \cup {out.pattern}
                    /\ Cardinality(pattern_cache') <= MaxCache
                    /\ ret' = UniqueResult(out.pattern, algorithm, out.attempts)

NextEngine == GenerateUniquePattern

SpecEngine == InitEngine /\ [][NextEngine]_vars

(***************************************************************************)
(* SpecKit: calls of generate_unique_pattern and generate_drum_kit on one  *)
(* engine, all for one length.                                             *)
(***************************************************************************)
\* An outcome of generate_unique_pattern: what it returns or raises, and
\* the fields of the engine as it leaves them.
CallOutcome(outcome, cache, algorithm) ==
    [ret |-> outcome, pattern_cache |-> cache, last_algorithm |-> algorithm]

\* A generate_unique_pattern that forgets the fingerprints it held.
UniqueCallForgetting(length, force_different, cache, last, numpy) ==
    UNION {UNION {IF generated.raised
                  THEN {CallOutcome(generated, cache, algorithm)}
                  ELSE {CallOutcome(UniqueResult(out.pattern, algorithm, out.attempts),
                                    {out.pattern}, algorithm) :
                           out \in UniquenessLoop({generated.value}, 0, cache)} :
                      generated \in GenerationTable[algorithm][length][numpy]} :
               algorithm \in AlgorithmChoices(force_different, last)}

\* generate_unique_pattern(length, force_different), lines 418-470, on an
\* engine whose fields are cache and last: the outcomes of the call.  The
\* while loop is evaluated once for every pattern the generators can give.
UniqueCall(length, force_different, cache, last, numpy) ==
    LET algorithms == AlgorithmChoices(force_different, last)
        patterns == UNION {{generated.value :
                              generated \in {g \in GenerationTable[a][length][numpy] :
                                                ~g.raised}} : a \in algorithms}
        loops == [p \in patterns |-> UniquenessLoop({p}, 0, cache)]
    IN  UNION {UNION {IF generated.raised
                      THEN {CallOutcome(generated, cache, algorithm)}
                      ELSE {CallOutcome(UniqueResult(out.pattern, algorithm,
                                                     out.attempts),
                                        cache \cup {out.pattern}, algorithm) :
                               out \in loops[generated.value]} :
                          generated \in GenerationTable[algorithm][length][numpy]} :
                   algorithm \in algorithms}

\* generate_drum_kit(length), lines 674-706: the outcomes of the call.  The
\* kick and the hat come from two calls of generate_unique_pattern (lines
\* 678, 690); an exception of either leaves the call.  snare and perc
\* (lines 682-687, 697) and the hits added to the hat (lines 692-694) are
\* built from the patterns and random draws and write no field; of the
\* returned dict the model keeps 'kick' and 'algorithm'.  The second call
\* is evaluated once for every cache and last_algorithm the first can
\* leave.
generate_drum_kit(length, cache, last, numpy) ==
    LET kicks == UniqueCall(length, TRUE, cache, last, numpy)
        engines == {<<k.pattern_cache, k.last_algorithm>> :
                       k \in {k \in kicks : ~k.ret.raised}}
        hats == [e \in engines |-> UniqueCall(length, TRUE, e[1], e[2], numpy)]
    IN  UNION {IF kick_data.ret.raised THEN {kick_data}
               ELSE {IF hat_data.ret.raised THEN hat_data
                     ELSE CallOutcome(Ok([kick |-> kick_data.ret.value.pattern,
                                          algorithm |-> kick_data.ret.value.algorithm]),
                                      hat_data.pattern_cache, hat_data.last_algorithm) :
                        hat_data \in hats[<<kick_data.pattern_cache,
                                            kick_data.last_algorithm>>]} :
                  kick_data \in kicks}

InitKit ==
    /\ op = "__init__"
    /\ args \in [length : 1..MaxKitLength, force_different : {TRUE}]
    /\ pc = "done"
    /\ ret = Ok(<<>>)
    /\ EngineInit
    /\ has_numpy \in BOOLEAN
    /\ MelodyIdle
    /\ GeneticInit
    /\ BassIdle
    /\ NoThreads

GenerateDrumKit ==
    /\ \E out \in generate_drum_kit(args.length, pattern_cache, last_algorithm,
                                    has_numpy) :
         /\ ret' = out.ret
         /\ pattern_cache' = out.pattern_cache
         /\ last_algorithm' = out.last_algorithm
    /\ Cardinality(pattern_cache') <= MaxCache
    /\ op' = "generate_drum_kit"
    /\ pc' = "done"
    /\ UNCHANGED <<args, has_numpy, melody_vars, genetic_vars, frames, bass_vars>>

NextKit ==
    \/ GenerateUniquePattern
    \/ GenerateDrumKit

SpecKit == InitKit /\ [][NextKit]_vars

(***************************************************************************)
(* SpecGenetic: calls of initialize_population and evolve on one           *)
(* GeneticRhythm.                                                          *)
(***************************************************************************)
\* GeneticRhythm(population_size), lines 258-261
InitGenetic ==
    /\ op = "__init__"
    /\ args = <<>>
    /\ pc = "done"
    /\ ret = Ok(<<>>)
    /\ population_size \in 0..MaxPopulation
    /\ population = <<>>
    /\ generation = 0
    /\ EngineInit
    /\ has_numpy = FALSE
    /\ MelodyIdle
    /\ BassIdle
    /\ NoThreads

\* initialize_population(length), lines 263-274
InitializePopulation ==
    \E length \in 0..MaxGenes :
      /\ population' \in initialize_population(population_size, length)
      /\ op' = "initialize_population"
      /\ args' = [length |-> length]
      /\ pc' = "done"
      /\ ret' = Ok(<<>>)
      /\ UNCHANGED <<population_size, generation, engine_vars, melody_vars, frames, bass_vars>>

\* evolve(), lines 377-404
Evolve ==
    /\ generation < MaxGeneration
    /\ \E out \in evolve(population, population_size, generation) :
         /\ ret' = out.ret
         /\ population' = out.population
         /\ generation' = out.generation
    /\ op' = "evolve"
    /\ args' = <<>>
    /\ pc' = "done"
    /\ UNCHANGED <<population_size, engine_vars, melody_vars, frames, bass_vars>>

NextGenetic ==
    \/ InitializePopulation
    \/ Evolve

SpecGenetic == InitGenetic /\ [][NextGenetic]_vars

(***************************************************************************)
(* SpecThreads: MaxThreads threads call generate_unique_pattern on one     *)
(* engine.  The engine has no lock; a thread can be suspended between any  *)
(* two bytecodes, and the model lets the threads take turns between the    *)
(* statements that read or write the fields of the engine: the draw of the *)
(* algorithm and the generation (lines 423-453), one evaluation of the     *)
(* while condition with the loop body when it holds (lines 456-460), and   *)
(* the insertion with the return (lines 462-470).  A call starts while the *)
(* cache holds at most MaxCache fingerprints, and all calls ask for the    *)
(* same length.                                                            *)
(***************************************************************************)
Threads == 1..MaxThreads

InitThreads ==
    /\ op = "none"
    /\ args \in [length : 1..MaxThreadLength]
    /\ pc = "done"
    /\ ret = Ok(<<>>)
    /\ EngineInit
    /\ has_numpy \in BOOLEAN
    /\ MelodyIdle
    /\ GeneticInit
    /\ BassIdle
    /\ frames = [t \in Threads |-> IdleFrame]

\* lines 423-455: thread t enters the call, draws an algorithm and
\* generates a pattern
ThreadGenerate(t) ==
    /\ frames[t].pc \in {"idle", "done"}
    /\ Cardinality(pattern_cache) <= MaxCache
    /\ \E force_different \in BOOLEAN :
         \E algorithm \in AlgorithmChoices(force_different, last_algorithm) :
           \E generated \in GenerationTable[algorithm][args.length][has_numpy] :
             /\ last_algorithm' = algorithm
             /\ frames' = [frames EXCEPT ![t] =
                   IF generated.raised
                   THEN [IdleFrame EXCEPT !.pc = "done", !.ret = generated]
                   ELSE [IdleFrame EXCEPT !.pc = "while",
                                          !.pattern = generated.value]]
    /\ UNCHANGED <<op, args, pc, ret, pattern_cache, has_numpy, melody_vars,
                   genetic_vars, bass_vars>>

\* A loop that goes on for as long as the fingerprint is in the cache.
ThreadWhileUnbounded(t) ==
    /\ frames[t].pc = "while"
    /\ IF frames[t].pattern \in pattern_cache
       THEN \E transformed \in TransformPattern(frames[t].pattern) :
              frames' = [frames EXCEPT ![t].pattern = transformed,
                                       ![t].attempts = @ + 1]
       ELSE frames' = [frames EXCEPT ![t].pc = "add"]
    /\ UNCHANGED <<op, args, pc, ret, engine_vars, melody_vars, genetic_vars, bass_vars>>

\* lines 456-460: thread t evaluates the while condition and, when it
\* holds, runs the body
ThreadWhile(t) ==
    /\ frames[t].pc = "while"
    /\ IF frames[t].pattern \in pattern_cache /\ frames[t].attempts < 10
       THEN \E transformed \in TransformPattern(frames[t].pattern) :
              frames' = [frames EXCEPT ![t].pattern = transformed,
                                       ![t].attempts = @ + 1]
       ELSE frames' = [frames EXCEPT ![t].pc = "add"]
    /\ UNCHANGED <<op, args, pc, ret, engine_vars, melody_vars, genetic_vars, bass_vars>>

\* lines 462-470: thread t inserts the fingerprint and returns
ThreadAdd(t) ==
    /\ frames[t].pc = "add"
    /\ pattern_cache' = pattern_cache \cup {frames[t].pattern}
    /\ frames' = [frames EXCEPT
                     ![t].pc = "done",
                     ![t].ret = Ok([pattern |-> frames[t].pattern,
                                    attempts |-> frames[t].attempts])]
    /\ UNCHANGED <<op, args, pc, ret, last_algorithm, has_numpy, melody_vars,
                   genetic_vars, bass_vars>>

NextThreads ==
    \E t \in Threads :
      \/ ThreadGenerate(t)
      \/ ThreadWhile(t)
      \/ ThreadAdd(t)

SpecThreads == InitThreads /\ [][NextThreads]_vars

\* The scheduler lets every thread that is inside a call run again.
FairThreads == \A t \in Threads : WF_vars(ThreadWhile(t) \/ ThreadAdd(t))

SpecThreadsFair == SpecThreads /\ FairThreads

(***************************************************************************)
(* SpecHumanize: one call of humanize_timing, humanize_velocity or         *)
(* add_swing; the three are static methods and keep no state.              *)
(***************************************************************************)
\* A note of the test (test_all_systems.py, lines 274-278) at a position
\* and with a velocity
Note(at, velocity) ==
    [position |-> at, pitch |-> 60, velocity |-> velocity, length |-> 12]

\* The lists of up to MaxNoteCount notes over positions and velocities
NoteLists(positions, velocities) ==
    UNION {[1..n -> {Note(at, velocity) : at \in positions,
                                           velocity \in velocities}] :
              n \in 0..MaxNoteCount}

\* The ticks of the first two sixteenths, and the beats up to the second bar
PositionInputs == 0..6 \cup {12, 24, 36, 48}

\* amount: 0.03, 0.1 and 0.11 give max_shift 1, 4 and 5; -0.05 gives -2
TimingArgs ==
    [notes : NoteLists(PositionInputs, {100}), amount : {-5, 0, 3, 10, 11}]

\* amount: 0.02, 0.1 and 0.2 give variation 2, 12 and 25; -0.01 gives -1
VelocityArgs ==
    [notes : NoteLists({0}, {1, 2, 64, 100, 126, 127}),
     amount : {-1, 0, 2, 10, 20}]

\* amount: 0.15 and 0.2 (the callers' values) give swing_ticks 0; 0.5 and
\* 1.0 give 1 and 3; -0.5 gives -1
SwingArgs ==
    [notes : NoteLists(PositionInputs, {100}), amount : {-50, 0, 15, 20, 50, 100}]

InitHumanize ==
    /\ pc = "call"
    /\ ret = Ok(<<>>)
    /\ \/ op = "humanize_timing" /\ args \in TimingArgs
       \/ op = "humanize_velocity" /\ args \in VelocityArgs
       \/ op = "add_swing" /\ args \in SwingArgs
    /\ EngineInit
    /\ has_numpy = FALSE
    /\ MelodyIdle
    /\ GeneticInit
    /\ BassIdle
    /\ NoThreads

CallHumanizeTiming ==
    /\ pc = "call" /\ op = "humanize_timing"
    /\ ret' \in humanize_timing(args.notes, args.amount)
    /\ pc' = "done"
    /\ UNCHANGED <<op, args, engine_vars, genetic_vars, frames, melody_vars, bass_vars>>

CallHumanizeVelocity ==
    /\ pc = "call" /\ op = "humanize_velocity"
    /\ ret' \in humanize_velocity(args.notes, args.amount)
    /\ pc' = "done"
    /\ UNCHANGED <<op, args, engine_vars, genetic_vars, frames, melody_vars, bass_vars>>

CallAddSwing ==
    /\ pc = "call" /\ op = "add_swing"
    /\ ret' = add_swing(args.notes, args.amount)
    /\ pc' = "done"
    /\ UNCHANGED <<op, args, engine_vars, genetic_vars, frames, melody_vars, bass_vars>>

NextHumanize ==
    \/ CallHumanizeTiming
    \/ CallHumanizeVelocity
    \/ CallAddSwing

SpecHumanize == InitHumanize /\ [][NextHumanize]_vars

(***************************************************************************)
(* SpecNotes: one call of generate_melody or of generate_bass_line,        *)
(* followed note by note.  Each function appends to its list and writes    *)
(* only the last element again (generate_melody, lines 246-249), so the    *)
(* model keeps the end of the list, the note appended last: melody and    *)
(* bass hold at most one note, and every note of the returned list is the *)
(* value of melody[1] or bass[1] in some state of the call.                *)
(***************************************************************************)
\* The keys the calls are followed in: the lowest and the highest root, two
\* roots between them and a name that is none, with seven-note, five-note
\* and six-note scales and a scale name that is none.
TailKeys ==
    {"C", "F#", "A", "B", "H"}
        \X {"major", "minor", "pentatonic_minor", "blues", "unknown"}

\* The default octave range, and the range of
\* MusicalIntelligence._generate_melodic (musical_intelligence.py, line 789)
TailRanges == {<<4, 6>>, <<5, 6>>}

\* generate_melody is followed for a bar of four notes and for bars of one
\* note in every key, and in C minor for a bar of DenseNotes notes, where
\* tick_length is 1.
MelodyTailArgs ==
    {[root |-> key[1], scale |-> key[2], octave_range |-> octave_range,
      bars |-> size[1], notes_per_bar |-> size[2]] :
        key \in TailKeys, octave_range \in TailRanges,
        size \in {<<1, 4>>, <<MaxBars, 1>>}}
    \cup {[root |-> "C", scale |-> "minor", octave_range |-> octave_range,
           bars |-> 1, notes_per_bar |-> DenseNotes] :
             octave_range \in TailRanges}

\* The chord progressions generate_bass_line is followed with: none, one
\* chord, on a root name or on a name that is none, and two chords.  Only
\* chord['root'] is read (line 287).
BassProgressions ==
    {<<>>} \cup {<<[root |-> root, type |-> "major"]>> : root \in {"C", "F#", "B", "H"}}
           \cup {<<[root |-> "C", type |-> "major"], [root |-> "B", type |-> "dim"]>>}

BassArgs ==
    {[root |-> key[1], scale |-> key[2], chord_progression |-> chord_progression,
      bars |-> bars] :
        key \in TailKeys, chord_progression \in BassProgressions,
        bars \in 0..MaxBars}

InitNotes ==
    /\ pc = "call"
    /\ ret = Ok(<<>>)
    /\ \/ op = "generate_melody" /\ args \in MelodyTailArgs
       \/ op = "generate_bass_line" /\ args \in BassArgs
    /\ EngineInit
    /\ has_numpy = FALSE
    /\ MelodyIdle
    /\ GeneticInit
    /\ BassIdle
    /\ NoThreads

\* generate_melody, lines 204-243: the beat is a note; the note appended
\* is the end of melody
MelodyNoteTail ==
    /\ pc = "for beat" /\ beat < args.notes_per_bar
    /\ LET tick_length == PyFloorDiv(48, args.notes_per_bar)
           available_notes == AvailableNotes(args.root, args.scale, args.octave_range)
       IN  \E note \in NextNotes(current_note, available_notes, beat),
              length \in NoteLengths(tick_length),
              velocity \in NoteVelocities(beat) :
             /\ current_note' = note
             /\ melody' = <<[position |-> position,
                             pitch |-> note,
                             length |-> Min(length, 48 - PyMod(position, 48)),
                             velocity |-> velocity]>>
             /\ position' = position + tick_length
    /\ beat' = beat + 1
    /\ UNCHANGED <<op, args, pc, ret, engine_vars, genetic_vars, frames, bar, bass_vars>>

\* generate_bass_line, lines 282-283
BassEnter ==
    /\ pc = "call" /\ op = "generate_bass_line"
    /\ bass' = <<>>
    /\ pc' = "for bass bar"
    /\ UNCHANGED <<op, args, ret, engine_vars, genetic_vars, frames, melody_vars,
                   bass_pattern>>

\* lines 285-305: range(bars) has another bar; its chord is read and a
\* pattern is drawn.  bar % 0 raises ZeroDivisionError (line 286) and a
\* root that is no key of ROOTS raises KeyError (line 287).
BassNextBar ==
    /\ pc = "for bass bar" /\ op = "generate_bass_line" /\ bar < args.bars
    /\ IF Len(args.chord_progression) = 0
       THEN /\ ret' = Raise("ZeroDivisionError")
            /\ pc' = "done"
            /\ UNCHANGED bass_pattern
       ELSE LET chord == args.chord_progression[
                             PyMod(bar, Len(args.chord_progression)) + 1]
            IN  IF chord.root \notin RootNameSet
                THEN /\ ret' = Raise("KeyError")
                     /\ pc' = "done"
                     /\ UNCHANGED bass_pattern
                ELSE /\ bass_pattern' \in BassPatterns(ROOTS(chord.root) + 24)
                     /\ pc' = "for pos"
                     /\ UNCHANGED ret
    /\ UNCHANGED <<op, args, engine_vars, genetic_vars, frames, melody_vars, bass>>

\* lines 307-317: the next (pos, pitch, length) of the pattern; pos is
\* below 48 in every pattern
BassNote ==
    /\ pc = "for pos" /\ bass_pattern /= <<>>
    /\ LET pos == Head(bass_pattern)[1]
           pitch == quantize_to_scale(Head(bass_pattern)[2], args.root, args.scale)
           length == Head(bass_pattern)[3]
       IN  \E velocity \in {90 + v : v \in VelocityDraws(-10, 10)} :
             bass' = <<[position |-> bar * 48 + pos,
                        pitch |-> pitch.value,
                        length |-> length,
                        velocity |-> velocity]>>
    /\ bass_pattern' = Tail(bass_pattern)
    /\ UNCHANGED <<op, args, pc, ret, engine_vars, genetic_vars, frames, melody_vars>>

\* line 307: the pattern is exhausted
BassEndBar ==
    /\ pc = "for pos" /\ bass_pattern = <<>>
    /\ bar' = bar + 1
    /\ pc' = "for bass bar"
    /\ UNCHANGED <<op, args, ret, engine_vars, genetic_vars, frames, melody,
                   position, current_note, beat, bass_vars>>

\* line 319: range(bars) is exhausted
BassReturn ==
    /\ pc = "for bass bar" /\ op = "generate_bass_line" /\ bar >= args.bars
    /\ ret' = Ok(bass)
    /\ pc' = "done"
    /\ UNCHANGED <<op, args, engine_vars, genetic_vars, frames, melody_vars, bass_vars>>

NextNoteByNote ==
    \/ MelodyEnter
    \/ MelodyNextBar
    \/ MelodyRest
    \/ MelodyNoteTail
    \/ MelodyEndBar
    \/ MelodyReturn
    \/ BassEnter
    \/ BassNextBar
    \/ BassNote
    \/ BassEndBar
    \/ BassReturn

SpecNotes == InitNotes /\ [][NextNoteByNote]_vars

(***************************************************************************)
(* Claims about EuclideanRhythm.generate.                                  *)
(***************************************************************************)
Returned(name) == pc = "done" /\ op = name

IsBinary(pattern) == \A i \in 1..Len(pattern) : pattern[i] \in {0, 1}

\* pattern rotated left by k places, 0 <= k < Len(pattern)
RotateLeft(pattern, k) == SubSeq(pattern, k + 1, Len(pattern)) \o SubSeq(pattern, 1, k)

\* C1: for steps >= 1 and 0 <= pulses <= steps, generate returns without
\* raising a vector of exactly `steps` binary values whose sum is exactly
\* `pulses` (for rotation 0, the default, and for every other rotation tried).
C1_LengthAndSum ==
    (Returned("generate") /\ args.steps >= 1
        /\ 0 <= args.pulses /\ args.pulses <= args.steps)
    => /\ ~ret.raised
       /\ Len(ret.value) = args.steps
       /\ IsBinary(ret.value)
       /\ SumSeq(ret.value) = args.pulses

\* C1 witness: a call with 0 < pulses < steps and the default rotation has
\* returned a vector of that length and sum, the remainder branch of build
\* taken (5 does not divide 13).
C1_Witness ==
    /\ Returned("generate")
    /\ args = [pulses |-> 5, steps |-> 13, rotation |-> 0]
    /\ Len(ret.value) = 13 /\ SumSeq(ret.value) = 5

\* C2: generate(4, 16, 0) has its 4 onsets at step indices 0, 4, 8, 12.
C2_FourOnTheFloor ==
    (Returned("generate") /\ args = [pulses |-> 4, steps |-> 16, rotation |-> 0])
    => /\ ~ret.raised
       /\ ret.value = <<1, 0, 0, 0, 1, 0, 0, 0, 1, 0, 0, 0, 1, 0, 0, 0>>

\* C3: for 0 < pulses <= steps and rotation >= 0, generate(pulses, steps,
\* rotation) is generate(pulses, steps, 0) rotated left by rotation mod steps.
C3_RotationModSteps ==
    (Returned("generate") /\ 0 < args.pulses /\ args.pulses <= args.steps
        /\ args.rotation >= 0)
    => /\ ~ret.raised
       /\ ret.value = RotateLeft(generate(args.pulses, args.steps, 0).value,
                                  args.rotation % args.steps)

\* C4: a call with out-of-range parameters ends in an error and returns no
\* result: EuclideanRhythm.generate with steps <= 0 or pulses < 0 raises,
\* and generate_melody with bars <= 0 raises.
C4_InvalidParametersRejected ==
    /\ (Returned("generate") /\ (args.steps <= 0 \/ args.pulses < 0))
           => ret.raised
    /\ (Returned("generate_melody") /\ args.bars <= 0)
           => ret.raised

(***************************************************************************)
(* Claims about GeneticRhythm.                                             *)
(***************************************************************************)
\* the least fitness of a population
MinFitness(pop) ==
    fitness(pop[CHOOSE i \in 1..Len(pop) :
                    \A j \in 1..Len(pop) :
                        fitness(pop[i]).value <= fitness(pop[j]).value]).value

\* C11: no call of evolve() raises, and an evolve() on an empty population
\* leaves population_size individuals in it.
C11_EvolveNeverRaises ==
    [][op' = "evolve"
          => /\ ~ret'.raised
             /\ population = <<>> => Len(population') = population_size]_vars

\* C12: the individual evolve() returns is a member of the population as
\* the call leaves it, and no member of that population is fitter.
C12_ReturnsBestOfNewGeneration ==
    (Returned("evolve") /\ ~ret.raised)
        => /\ ret.value \in SeqToSet(population)
           /\ \A i \in 1..Len(population) :
                  fitness(ret.value).value >= fitness(population[i]).value

\* C13: the individual returned by the first evolve() after
\* initialize_population is at least as fit as the least fit individual of
\* the population initialize_population left.
C13_ReturnedAtLeastInitialMinimum ==
    [][(op = "initialize_population" /\ op' = "evolve" /\ ~ret'.raised)
          => fitness(ret'.value).value >= MinFitness(population)]_vars

\* an initialized population of three, as one evolve() has left it: its
\* first member is the one survivor, which is returned, and two children
\* follow, one of them less fit than the survivor
C13_Witness ==
    /\ Returned("evolve") /\ ~ret.raised
    /\ generation = 1
    /\ population_size = 3
    /\ Len(ret.value) = MaxGenes
    /\ population[1] = ret.value
    /\ fitness(population[2]).value < fitness(ret.value).value

(***************************************************************************)
(* Claims about the uniqueness cache of CreativePatternEngine.             *)
(***************************************************************************)
\* C14: a call of generate_unique_pattern never applies more than 10
\* transformations, and a call that has generated its pattern leaves the
\* while loop and returns, whatever the cache holds.
C14_TerminatesWithinTenAttempts ==
    /\ [](\A t \in Threads : frames[t].attempts <= 10)
    /\ \A t \in Threads :
         (frames[t].pc = "while") ~> (frames[t].pc = "done" /\ ~frames[t].ret.raised)

\* a call has returned a pattern after 10 transformations, every one of
\* which gave a fingerprint the cache held
C14_Witness ==
    \E t \in Threads :
      /\ frames[t].pc = "done" /\ ~frames[t].ret.raised
      /\ frames[t].ret.value.attempts = 10
      /\ TransformPattern(frames[t].ret.value.pattern) \subseteq pattern_cache

\* C15: a call of generate_unique_pattern returns a pattern whose
\* fingerprint the cache already held only after 10 transformations, and
\* the fingerprint of the pattern it returns is in the cache afterwards.
C15_DuplicateOnlyAfterTenAttempts ==
    [][(op' = "generate_unique_pattern" /\ ~ret'.raised)
          => /\ ret'.value.pattern \in pattern_cache => ret'.value.attempts = 10
             /\ ret'.value.pattern \in pattern_cache']_vars

\* a call on a cache that holds both patterns of length 1 has gone through
\* 10 transformations
C15_Witness ==
    /\ Returned("generate_unique_pattern") /\ ~ret.raised
    /\ ret.value.attempts = 10
    /\ pattern_cache = {<<0>>, <<1>>}

\* C17: the cache is empty in a new engine, no call of
\* generate_unique_pattern or generate_drum_kit removes a fingerprint, and
\* a call of generate_unique_pattern adds at most one.
C17_CacheOnlyGrows ==
    /\ pattern_cache = {}
    /\ [][/\ pattern_cache \subseteq pattern_cache'
          /\ op' = "generate_unique_pattern"
                => Cardinality(pattern_cache' \ pattern_cache) <= 1]_vars

\* a generate_drum_kit has returned and left the fingerprints of its kick
\* and its hat in the cache
C17_Witness ==
    /\ Returned("generate_drum_kit") /\ ~ret.raised
    /\ Cardinality(pattern_cache) = 2

\* C16: the check of a fingerprint and its insertion are one atomic step:
\* two threads never both return the same pattern unless one of them went
\* through all 10 transformations.
C16_AtomicCheckAndInsert ==
    \A t1 \in Threads, t2 \in Threads :
      (/\ t1 # t2
       /\ frames[t1].pc = "done" /\ ~frames[t1].ret.raised
       /\ frames[t2].pc = "done" /\ ~frames[t2].ret.raised
       /\ frames[t1].ret.value.pattern = frames[t2].ret.value.pattern)
          => (frames[t1].ret.value.attempts = 10 \/ frames[t2].ret.value.attempts = 10)

(***************************************************************************)
(* Claims about Scale.quantize_to_scale.                                   *)
(***************************************************************************)
\* the pitch class of note counted from the root of the key
PitchClass(note, root) == (note - RootsGet(root)) % 12

\* C6: for every pitch in 0..127, every root and every scale,
\* quantize_to_scale returns a pitch whose pitch class relative to the root
\* is in the scale's interval set, and quantizing that pitch again returns it.
C6_ResultInScale ==
    Returned("quantize_to_scale")
    => /\ ~ret.raised
       /\ PitchClass(ret.value, args.root) \in SeqToSet(ScalesGet(args.scale_type))
       /\ quantize_to_scale(ret.value, args.root, args.scale_type) = Ok(ret.value)

\* C6 witness: a pitch outside the scale (C#4 in D blues) has been moved to
\* a pitch of the scale.
C6_Witness ==
    /\ Returned("quantize_to_scale")
    /\ args = [note |-> 61, root |-> "D", scale_type |-> "blues"]
    /\ ret = Ok(60)

\* the scale interval nearest to a pitch class, the lower of two equally near
NearestInterval(class, intervals) ==
    CHOOSE iv \in SeqToSet(intervals) :
        \A other \in SeqToSet(intervals) :
            \/ Abs(iv - class) < Abs(other - class)
            \/ Abs(iv - class) = Abs(other - class) /\ iv <= other

ChordClasses(chord, key_root) ==
    {PitchClass(tone, key_root) : tone \in SeqToSet(get_chord_tones(chord.root, chord.type, 4))}

\* C8 as stated: for every root and every defined scale, every diatonic
\* chord has its root and all tones of its triad in the scale.
C8_ChordsInScale ==
    (Returned("get_diatonic_chords") /\ args.root \in RootNameSet
        /\ args.scale \in DOMAIN SCALES)
    => /\ ~ret.raised
       /\ \A k \in 1..Len(ret.value) :
            ChordClasses(ret.value[k], args.root) \subseteq SeqToSet(SCALES[args.scale])

\* C8 as amended: for the scales major, minor and aeolian every chord is
\* built from notes of that scale; for every other scale the chords are
\* those of the major pattern, built from notes of the root's major scale.
C8_ChordsInPatternScale ==
    (Returned("get_diatonic_chords") /\ args.root \in RootNameSet)
    => /\ ~ret.raised
       /\ \A k \in 1..Len(ret.value) :
            ChordClasses(ret.value[k], args.root) \subseteq
                SeqToSet(IF args.scale \in {"major", "minor", "aeolian"}
                         THEN SCALES[args.scale]
                         ELSE SCALES["major"])

\* C8 witness: the chords of C dorian have been derived, and the third is
\* E minor, of the major pattern.
C8_Witness ==
    /\ Returned("get_diatonic_chords")
    /\ args = [root |-> "C", scale |-> "dorian"]
    /\ Len(ret.value) = 7
    /\ ret.value[3] = [root |-> "E", type |-> "minor", degree |-> 3]

MajorQualities == <<"major", "minor", "minor", "major", "major", "minor", "dim">>

MinorQualities == <<"minor", "dim", "major", "minor", "minor", "major", "major">>

\* C9: for every valid root get_diatonic_chords returns exactly 7 chords
\* with degrees 1..7 in order; for major the qualities are major, minor,
\* minor, major, major, minor, dim on the degrees of the major scale, for
\* minor and aeolian minor, dim, major, minor, minor, major, major on the
\* degrees of the natural minor scale; C major gives C Dm Em F G Am Bdim.
C9_SevenChords ==
    (Returned("get_diatonic_chords") /\ args.root \in RootNameSet)
    => /\ ~ret.raised
       /\ Len(ret.value) = 7
       /\ \A k \in 1..7 : ret.value[k].degree = k
       /\ args.scale = "major" =>
            \A k \in 1..7 :
                /\ ret.value[k].type = MajorQualities[k]
                /\ ROOTS(ret.value[k].root) % 12
                     = (ROOTS(args.root) + SCALES["major"][k]) % 12
       /\ args.scale \in {"minor", "aeolian"} =>
            \A k \in 1..7 :
                /\ ret.value[k].type = MinorQualities[k]
                /\ ROOTS(ret.value[k].root) % 12
                     = (ROOTS(args.root) + SCALES["minor"][k]) % 12
       /\ (args.root = "C" /\ args.scale = "major") =>
            /\ [k \in 1..7 |-> ret.value[k].root] = <<"C", "D", "E", "F", "G", "A", "B">>
            /\ [k \in 1..7 |-> ret.value[k].type] = MajorQualities

\* C9 witness: the chords of Db aeolian have been derived; the second is the
\* diminished chord on the second degree.
C9_Witness ==
    /\ Returned("get_diatonic_chords")
    /\ args = [root |-> "Db", scale |-> "aeolian"]
    /\ ret.value[2] = [root |-> "D#", type |-> "dim", degree |-> 2]

\* C10: get_chord_progression(style) returns the diatonic chords at the
\* style's degree-index sequence, in that order and of the same length, an
\* unknown style using the sequence of 'pop'; A minor, 'pop' gives Am F Dm Em.
C10_ProgressionFollowsPattern ==
    (Returned("get_chord_progression") /\ args.root \in RootNameSet)
    => LET diatonic == get_diatonic_chords(args.root, args.scale).value
           pattern  == IF args.style \in DOMAIN PROGRESSIONS
                       THEN PROGRESSIONS[args.style]
                       ELSE <<0, 5, 3, 4>>
       IN  /\ ~ret.raised
           /\ Len(ret.value) = Len(pattern)
           /\ \A k \in 1..Len(pattern) : ret.value[k] = diatonic[pattern[k] + 1]
           /\ (args.root = "A" /\ args.scale = "minor" /\ args.style = "pop") =>
                /\ [k \in 1..4 |-> ret.value[k].root] = <<"A", "F", "D", "E">>
                /\ [k \in 1..4 |-> ret.value[k].type]
                     = <<"minor", "major", "minor", "minor">>

\* C10 witness: a progression of a style with a seventh-degree chord
\* ('epic': I VII IV V) has been returned in A minor.
C10_Witness ==
    /\ Returned("get_chord_progression")
    /\ args = [root |-> "A", scale |-> "minor", style |-> "epic"]
    /\ [k \in 1..4 |-> ret.value[k].root] = <<"A", "G", "D", "E">>

(***************************************************************************)
(* Claims about CreativePatternEngine.generate_unique_pattern.             *)
(***************************************************************************)
\* C5: for every length >= 1, generate_unique_pattern(length) returns a
\* result without raising, whichever algorithm is selected and whatever
\* random parameters are drawn.
C5_NeverRaises ==
    (Returned("generate_unique_pattern") /\ args.length >= 1) => ~ret.raised

(***************************************************************************)
(* Claims about HumanizeEngine.                                            *)
(***************************************************************************)
\* C18: humanize_timing with jitter bound J ticks (max_shift, the integer
\* part of 48 * amount) returns notes whose positions are >= 0 and differ
\* from the input positions by at most J, and by at most J/4 where the
\* input position is an exact multiple of 12 ticks.
C18_TimingJitterBounded ==
    (Returned("humanize_timing") /\ ~ret.raised) =>
        LET J == PyInt(48, args.amount)
        IN  \A i \in 1..Len(args.notes) :
              LET moved == Abs(ret.value[i].position - args.notes[i].position)
              IN  /\ ret.value[i].position >= 0
                  /\ moved <= J
                  /\ args.notes[i].position % 12 = 0 => 4 * moved <= J

\* C19: humanize_velocity with jitter fraction f, on notes whose velocities
\* are in 1..127, returns notes whose velocities are in 1..127 and differ
\* from the input velocities by at most the integer part of f * 127.
C19_VelocityJitterBounded ==
    (Returned("humanize_velocity") /\ ~ret.raised) =>
        \A i \in 1..Len(args.notes) :
            /\ ret.value[i].velocity \in 1..127
            /\ Abs(ret.value[i].velocity - args.notes[i].velocity)
                  <= PyInt(127, args.amount)

\* A call with amount 0.2 on a note of velocity 127 and a note of velocity
\* 100: the first stays at 127, the second loses the whole variation of 25.
C19_Witness ==
    /\ Returned("humanize_velocity") /\ ~ret.raised
    /\ args.amount = 20
    /\ Len(args.notes) = 2
    /\ args.notes[1].velocity = 127 /\ ret.value[1].velocity = 127
    /\ args.notes[2].velocity = 100 /\ ret.value[2].velocity = 75

\* C20: add_swing moves exactly the notes at a position 3k with k odd,
\* forward by amount * 3 ticks (its integer part, positions being whole
\* ticks), and leaves every other position, and every pitch, length and
\* velocity, as it was.
C20_SwingShiftsOddSixteenths ==
    (Returned("add_swing") /\ ~ret.raised) =>
        \A i \in 1..Len(args.notes) :
            LET before == args.notes[i]
                after == ret.value[i]
                on_odd_sixteenth == /\ before.position % 3 = 0
                                    /\ (before.position \div 3) % 2 = 1
            IN  /\ after.pitch = before.pitch
                /\ after.length = before.length
                /\ after.velocity = before.velocity
                /\ after.position =
                      IF on_odd_sixteenth
                      THEN before.position + PyInt(3, args.amount)
                      ELSE before.position

(***************************************************************************)
(* Claims about GrooveTemplate.get_groove.                                 *)
(***************************************************************************)
\* A template has 16 onsets and 16 velocities, a velocity other than 0
\* exactly at the onsets, and a swing in [0, 1).
WellFormedGroove(groove) ==
    /\ Len(groove.pattern) = 16
    /\ Len(groove.velocities) = 16
    /\ \A i \in 1..16 : (groove.velocities[i] /= 0) <=> (groove.pattern[i] /= 0)
    /\ 0 <= groove.swing /\ groove.swing < 100

Roles == {"kick", "snare", "hat"}

\* C21 as stated: get_groove never raises; for a genre that is not
\* recognised it returns, for each of kick, snare and hat, the template it
\* returns for 'house'; every returned template is well formed.
C21_UnknownGenreGetsHouse ==
    Returned("get_groove") =>
        /\ ~ret.raised
        /\ WellFormedGroove(ret.value)
        /\ (args.genre \notin DOMAIN genre_map /\ args.element \in Roles)
              => ret = get_groove("house", args.element)

\* C21 as the code has it: get_groove never raises; for a genre that is
\* not recognised it returns house_4x4 for kick, backbeat for snare and
\* straight_16ths for hat, of which the first two are the templates of
\* 'house' and the third is not; every returned template is well formed.
C21_UnknownGenreGetsDefaults ==
    Returned("get_groove") =>
        /\ ~ret.raised
        /\ WellFormedGroove(ret.value)
        /\ (args.genre \notin DOMAIN genre_map /\ args.element \in Roles)
              => /\ args.element = "kick" => ret.value = KICK_GROOVES["house_4x4"]
                 /\ args.element = "snare" => ret.value = SNARE_GROOVES["backbeat"]
                 /\ args.element = "hat" =>
                       /\ ret.value = HAT_GROOVES["straight_16ths"]
                       /\ ret /= get_groove("house", "hat")
                 /\ args.element /= "hat" => ret = get_groove("house", args.element)

\* get_groove('jazz', 'hat') has returned the sixteenths of straight_16ths.
C21_Witness ==
    /\ Returned("get_groove") /\ ~ret.raised
    /\ args.genre = "jazz" /\ args.element = "hat"
    /\ ret.value.pattern = [i \in 1..16 |-> 1]

(***************************************************************************)
(* Claims about MelodicGenerator.generate_melody.                          *)
(***************************************************************************)
\* C22: the last note of a melody that is not empty has the pitch class of
\* the tonic of the key, and a velocity that is at least the average
\* velocity of the melody.
C22_EndsOnTonic ==
    (Returned("generate_melody") /\ ~ret.raised /\ ret.value /= <<>>) =>
        LET last == ret.value[Len(ret.value)]
            velocities == [i \in 1..Len(ret.value) |-> ret.value[i].velocity]
        IN  /\ PitchClass(last.pitch, args.root) = 0
            /\ last.velocity * Len(ret.value) >= SumSeq(velocities)

(***************************************************************************)
(* Claims about the notes of generate_melody and generate_bass_line.       *)
(***************************************************************************)
\* The notes of the key's scale in octaves 0 to 10
KeyScale == SeqToSet(get_scale_notes(args.root, args.scale, 0, 10))

\* The notes a call of SpecNotes has appended last
TailNotes == SeqToSet(melody) \cup SeqToSet(bass)

\* C23: every note appended by generate_melody and by generate_bass_line,
\* the note the melody is resolved to included, has a pitch that is in
\* Scale.get_scale_notes(root, scale, (0, 10)) for the key's root and scale.
C23_NotesInScale ==
    /\ \A note \in TailNotes : note.pitch \in KeyScale
    /\ (pc = "done" /\ ~ret.raised) =>
           \A i \in 1..Len(ret.value) : ret.value[i].pitch \in KeyScale

\* generate_bass_line has returned in C pentatonic minor over a chord on B:
\* the last note is none of the pitches 83, 88 and 90 of the patterns.
C23_Witness ==
    /\ Returned("generate_bass_line") /\ ~ret.raised
    /\ args.root = "C" /\ args.scale = "pentatonic_minor"
    /\ args.chord_progression = <<[root |-> "B", type |-> "major"]>>
    /\ ret.value /= <<>>
    /\ ret.value[1].pitch \notin {83, 88, 90}

\* C24: every note appended by generate_melody and by generate_bass_line,
\* for bars >= 1 and notes_per_bar >= 1, has a pitch in 0..127, a position
\* that is not negative, a length above 0 and a velocity in 1..127.
C24_NoteEventsInRange ==
    \A note \in TailNotes :
        /\ note.pitch \in 0..127
        /\ note.position >= 0
        /\ note.length > 0
        /\ note.velocity \in 1..127

C26_SameRequestSameOutput ==
    [][(/\ op = "generate_unique_pattern" /\ op' = "generate_unique_pattern"
        /\ args' = args
        /\ ~ret.raised /\ ~ret'.raised)
          => ret'.value.pattern = ret.value.pattern]_vars

\* the population new is what the claim says evolve() makes of the
\* population prev: individuals of the gene length of prev with binary
\* genes, the survivors of prev first and children of survivors after them
RefilledFrom(prev, new) ==
    LET half == PyFloorDiv(population_size, 2)
        survivors == SliceTo(SortByFitness(prev), half)
    IN  /\ \A i \in 1..Len(prev) : ~fitness(prev[i]).raised
        /\ \A k \in 1..Len(new) :
               Len(new[k]) = Len(prev[1]) /\ IsBinary(new[k])
        /\ \A k \in 1..half : new[k] = survivors[k]
        /\ \A k \in (half + 1)..Len(new) : Ok(new[k]) \in Offspring(survivors)

\* the population evolve() ranks: the one it finds, or the one it seeds
\* when it finds none
RankedPopulations ==
    IF population = <<>>
    THEN initialize_population(population_size, DefaultLength)
    ELSE {population}

\* C27: after every evolve() the generation counter is one more than
\* before and the population has population_size individuals of unchanged
\* gene length with binary genes: the best floor(population_size / 2) of
\* the previous population, unmodified, in descending order of fitness
\* with ties in their previous order, and then children that are a
\* crossover of two survivors followed by a mutation.
C27_EvolveRefillsPopulation ==
    [][op' = "evolve"
          => /\ generation' = generation + 1
             /\ Len(population') = population_size
             /\ \E prev \in RankedPopulations : RefilledFrom(prev, population')]_vars

\* the greatest fitness of a population
MaxFitness(pop) ==
    fitness(pop[CHOOSE i \in 1..Len(pop) :
                    \A j \in 1..Len(pop) :
                        fitness(pop[i]).value >= fitness(pop[j]).value]).value

\* C28: for population_size >= 2 an evolve() never lowers the greatest
\* fitness of the population, and an evolve() that follows an evolve()
\* with no initialize_population between them returns an individual at
\* least as fit as the one the earlier call returned.
C28_FitnessNeverRegresses ==
    [][(op' = "evolve" /\ population_size >= 2 /\ ~ret'.raised)
          => /\ population /= <<>>
                 => MaxFitness(population') >= MaxFitness(population)
             /\ (op = "evolve" /\ ~ret.raised)
                 => fitness(ret'.value).value >= fitness(ret.value).value]_vars

\* a second evolve() of a population of three has returned, and a child in
\* the population it left is fitter than the individual it returned
C28_Witness ==
    /\ Returned("evolve") /\ ~ret.raised
    /\ generation = 2
    /\ population_size = 3
    /\ MaxFitness(population) > fitness(ret.value).value

\* C29: a generate_unique_pattern call with force_different = True uses
\* an algorithm other than the one the call before it on the engine used
\* and reported, and after every call last_algorithm is the algorithm of
\* that call.
C29_ConsecutiveAlgorithmsDiffer ==
    [][op' = "generate_unique_pattern"
          => /\ ~ret'.raised => last_algorithm' = ret'.value.algorithm
             /\ (args'.force_different /\ op = "generate_unique_pattern")
                 => /\ last_algorithm' # last_algorithm
                    /\ (~ret.raised /\ ~ret'.raised)
                        => ret'.value.algorithm # ret.value.algorithm]_vars

\* a call with force_different = True has returned on an engine that held
\* a pattern of an earlier call, with the algorithm it reports in
\* last_algorithm
C29_Witness ==
    /\ Returned("generate_unique_pattern") /\ ~ret.raised
    /\ args.force_different
    /\ ret.value.attempts >= 1
    /\ Cardinality(pattern_cache) = 2
    /\ last_algorithm = ret.value.algorithm

\* C30: in generate_track every chord of the progression keeps its root
\* and its type through its symbol: the chord objects the bass and the
\* arpeggiator rebuild are the chord of the key signature, and the pad
\* gets the tones of that chord.
C30_ChordsSurviveSymbol ==
    (Returned("generate_track") /\ ~ret.raised)
        => \A i \in 1..Len(ret.value) :
               LET c == ret.value[i]
               IN  /\ c.bass = c.chord
                   /\ c.arp = c.chord
                   /\ c.pad = get_chord_tones(c.chord.root, c.chord.type, 4)

=============================================================================
